---- MODULE Spec2Model ----
(***************************************************************************)
(* Model of the CamFlow IFC control plane (security/ifc/fs.c) and of the   *)
(* provenance LSM hooks (security/provenance/hooks.c).                     *)
(*                                                                         *)
(* The control-plane handlers and the hooks are translated one action per  *)
(* handler.  Primitives that live in headers outside the two source files  *)
(* (tag sets, the tag counter, the node allocator, record_edge) are        *)
(* modelled from the design document and are marked as such.               *)
(***************************************************************************)
EXTENDS Integers, Sequences, FiniteSets, TLC

(***************************************************************************)
(* Bounds of the model.                                                    *)
(***************************************************************************)
MaxTag == 2        \* tag values are 0..MaxTag, 0 being the invalid sentinel
MaxPid == 2        \* process identifiers 1..MaxPid; 0 names no process
MaxOps == 3        \* control-plane requests / hook calls explored per run
MaxNodes == 5      \* provenance records the allocator can hand out
IFC_LABEL_MAX_SIZE == 1  \* capacity of one tag set

(***************************************************************************)
(* Program constants.                                                      *)
(***************************************************************************)
EPERM == 1
EAGAIN == 11
ENOMEM == 12
EINVAL == 22
SizeofTagMsg == 24         \* sizeof(struct ifc_tag_msg)
SizeofTag == 8             \* sizeof(tag_t)
SizeofContext == 48        \* sizeof(struct ifc_context)
SizeofContextMsg == 56     \* sizeof(struct ifc_context_msg)

NULL == 0

Tags == 0..MaxTag
Pids == 1..MaxPid
Creds == 1..MaxPid
Addrs == 1..MaxNodes

IFC_SECRECY == "secrecy"
IFC_INTEGRITY == "integrity"
IFC_SECRECY_P == "secrecy_p"
IFC_INTEGRITY_P == "integrity_p"
IFC_SECRECY_N == "secrecy_n"
IFC_INTEGRITY_N == "integrity_n"
LabelKinds == {IFC_SECRECY, IFC_INTEGRITY}
PrivKinds == {IFC_SECRECY_P, IFC_INTEGRITY_P, IFC_SECRECY_N, IFC_INTEGRITY_N}
Kinds == LabelKinds \cup PrivKinds
\* a tag_type value that is none of the six kinds
IFC_OTHER == "other"
TagTypes == Kinds \cup {IFC_OTHER}

IFC_ADD_TAG == "add"
IFC_REMOVE_TAG == "remove"
Ops == {IFC_ADD_TAG, IFC_REMOVE_TAG}

\* host objects other than credentials (the host owns their lifecycle)
Inodes == {"f1", "f2", "fp", "si1", "si2"}
Files == {"f1", "f2"}
Sbs == {"sb1", "sb2"}
Socks == {"s1", "s2"}
Msgs == {"m1"}
Shms == {"shm1"}

VARIABLES
  task_cred,      \* pid -> credential of the task (NULL: no such task)
  cred_live,      \* the credentials the host has allocated and not destroyed
  cred_ifc,       \* credential -> its IFC context (six tag sets), or NoIfc
  ifc_tag_count,  \* the tag authority's counter: the next tag to mint
  heap,           \* address -> provenance record
  next_node_id,   \* generator behind ASSIGN_NODE_ID
  cred_prov,      \* credential -> cred->provenance (an address or NULL)
  inode_prov,     \* inode -> inode_get_provenance(inode)
  sb_prov,        \* superblock -> sb->s_provenance
  sk_prov,        \* socket -> sock->sk->sk_provenance
  msg_prov,       \* message -> msg->provenance
  shm_prov,       \* segment -> shp->shm_perm.provenance
  named,          \* address -> ED_NAMED edges recorded from that record so far
  out,            \* calls to the log sink made by the last handler, in order
  last,           \* the last handler run: its name, arguments and result
  nops            \* handlers run so far

ifcVars == <<cred_ifc, ifc_tag_count>>
hostVars == <<task_cred, cred_live>>
provVars == <<heap, next_node_id, cred_prov, inode_prov, sb_prov, sk_prov,
              msg_prov, shm_prov, named>>
vars == <<task_cred, cred_live, cred_ifc, ifc_tag_count, heap, next_node_id,
          cred_prov, inode_prov, sb_prov, sk_prov, msg_prov, shm_prov, named,
          out, last, nops>>

(***************************************************************************)
(* Tag sets and contexts (linux/ifc.h, not among the source files).        *)
(***************************************************************************)
EmptyContext == [k \in Kinds |-> {}]

\* the ifc pointer of a credential that carries no context
NoIfc == [k \in {} |-> {}]

ifc_tag_valid(tag) == tag # 0

ifc_contains_value(set, tag) == tag \in set

\* insert-if-absent into the set of kind `kind`: <<result, context>>
ifc_add_tag(ctx, kind, tag) ==
  IF ~ifc_tag_valid(tag) THEN <<-EINVAL, ctx>>
  ELSE IF ifc_contains_value(ctx[kind], tag) THEN <<0, ctx>>
  ELSE IF Cardinality(ctx[kind]) >= IFC_LABEL_MAX_SIZE THEN <<-ENOMEM, ctx>>
  ELSE <<0, [ctx EXCEPT ![kind] = @ \cup {tag}]>>

ifc_add_privilege(ctx, kind, tag) == ifc_add_tag(ctx, kind, tag)

\* remove-if-present; removing an absent tag succeeds
ifc_remove_tag(ctx, kind, tag) ==
  IF ~ifc_tag_valid(tag) THEN <<-EINVAL, ctx>>
  ELSE <<0, [ctx EXCEPT ![kind] = @ \ {tag}]>>

ifc_remove_privilege(ctx, kind, tag) == ifc_remove_tag(ctx, kind, tag)

ifc_is_labelled(ctx) == \E k \in Kinds : ctx[k] # {}

\* the credential of the calling task and its context
current_cred(cur) == task_cred[cur]
current_ifc(cur) == current_cred(cur)

(***************************************************************************)
(* Bitwise OR of two's complement integers, for "rv |= ..." in             *)
(* ifc_read_tag.  \div rounds down and % is non-negative, so the recursion *)
(* walks the sign-extended bit patterns; -1 is the all-ones word.          *)
(***************************************************************************)
RECURSIVE BitOr(_, _)
BitOr(x, y) ==
  IF x = 0 THEN y
  ELSE IF y = 0 THEN x
  ELSE IF x = -1 \/ y = -1 THEN -1
  ELSE (IF (x % 2 = 1) \/ (y % 2 = 1) THEN 1 ELSE 0)
       + 2 * BitOr(x \div 2, y \div 2)

(***************************************************************************)
(* Provenance records (linux/provenance.h, not among the source files).    *)
(***************************************************************************)
MSG_TASK == "task"
MSG_INODE == "inode"
MSG_MSG == "msg"
MSG_SHM == "shm"
MSG_SOCK == "sock"
MSG_SB == "sb"

\* a slot of the record cache that was never handed out
NoNode == [st |-> "unalloc", kind |-> "none", id |-> 0, version |-> 0,
           tracked |-> FALSE, opaque |-> FALSE, name_recorded |-> FALSE]

\* a zero-initialised record of the given kind
ZeroNode(kind) == [st |-> "live", kind |-> kind, id |-> 0, version |-> 0,
                   tracked |-> FALSE, opaque |-> FALSE, name_recorded |-> FALSE]

\* alloc_provenance: the address of a fresh record, or NULL when the
\* allocation fails (`ok` false, or the cache is exhausted)
alloc_provenance(h, ok) ==
  LET free == {a \in Addrs : h[a].st = "unalloc"}
  IN IF ok /\ free # {} THEN CHOOSE a \in free : \A b \in free : a <= b
     ELSE NULL

\* free_provenance: releases the record
free_provenance(h, a) == [h EXCEPT ![a].st = "freed"]

\* set_node_id(prov, ASSIGN_NODE_ID): a freshly generated identifier
ASSIGN_NODE_ID == 0
set_node_id(node, nid, gen) ==
  [node EXCEPT !.id = IF nid = ASSIGN_NODE_ID THEN gen ELSE nid]

NodeOf(h, a) == IF a \in Addrs THEN h[a] ELSE NoNode

\* one call to the log sink, with the state of both endpoints at the time
\* of the call: record_edge(type, from, to, FLOW_ALLOWED),
\* long_record_edge(type, from, long record, FLOW_ALLOWED) or
\* long_prov_write(long record of the given type)
Call(call, type, from, to, h) ==
  [call |-> call, type |-> type, from |-> from, to |-> to,
   from_st |-> NodeOf(h, from).st, to_st |-> NodeOf(h, to).st,
   from_id |-> NodeOf(h, from).id, to_id |-> NodeOf(h, to).id,
   from_ver |-> NodeOf(h, from).version, to_ver |-> NodeOf(h, to).version]

Edge(type, from, to, h) == Call("record_edge", type, from, to, h)

ED_FORK == "ED_FORK"
ED_CHANGE == "ED_CHANGE"
ED_CREATE == "ED_CREATE"
ED_WRITE == "ED_WRITE"
ED_READ == "ED_READ"
ED_EXEC == "ED_EXEC"
ED_OPEN == "ED_OPEN"
ED_MMAP == "ED_MMAP"
ED_NAMED == "ED_NAMED"
ED_ATTACH == "ED_ATTACH"
ED_ASSOCIATE == "ED_ASSOCIATE"
ED_BIND == "ED_BIND"
ED_CONNECT == "ED_CONNECT"
ED_LISTEN == "ED_LISTEN"
ED_ACCEPT == "ED_ACCEPT"
ED_UNKNOWN == "ED_UNKNOWN"
MSG_FILE_NAME == "file_name"
MSG_ADDR == "address"

\* what a handler did: `returned` is false when it died on a bad pointer
\* before returning, `fault` says whether it dereferenced one
LastF(op, cur, ret, args, fault, returned) ==
  [op |-> op, cur |-> cur, ret |-> ret, args |-> args, fault |-> fault,
   returned |-> returned]

Last(op, cur, ret, args) == LastF(op, cur, ret, args, FALSE, TRUE)

(***************************************************************************)
(* security/ifc/fs.c                                                       *)
(***************************************************************************)
\* the context a process identifier resolves to: that of the task's live
\* credential, NULL when there is no such task
context_from_pid(pid) ==
  IF pid \in Pids /\ task_cred[pid] # NULL THEN task_cred[pid] ELSE NULL

\* the switch of ifc_write_self with the removal from secrecy_p acting on
\* the secrecy set
write_self_switch_crossed(ctx, op, tt, tag) ==
  IF op = IFC_ADD_TAG
  THEN CASE tt \in LabelKinds -> ifc_add_tag(ctx, tt, tag)
         [] tt \in PrivKinds -> ifc_add_privilege(ctx, tt, tag)
         [] OTHER -> <<-EINVAL, ctx>>
  ELSE CASE tt = IFC_SECRECY_P -> ifc_remove_tag(ctx, IFC_SECRECY, tag)
         [] tt \in LabelKinds -> ifc_remove_tag(ctx, tt, tag)
         [] tt \in PrivKinds -> ifc_remove_privilege(ctx, tt, tag)
         [] OTHER -> <<-EINVAL, ctx>>

\* the add/remove switch of ifc_write_self: <<rv, context>>
write_self_switch(ctx, op, tt, tag) ==
  IF op = IFC_ADD_TAG
  THEN CASE tt = IFC_SECRECY -> ifc_add_tag(ctx, IFC_SECRECY, tag)
         [] tt = IFC_INTEGRITY -> ifc_add_tag(ctx, IFC_INTEGRITY, tag)
         [] tt = IFC_SECRECY_P -> ifc_add_privilege(ctx, IFC_SECRECY_P, tag)
         [] tt = IFC_INTEGRITY_P -> ifc_add_privilege(ctx, IFC_INTEGRITY_P, tag)
         [] tt = IFC_SECRECY_N -> ifc_add_privilege(ctx, IFC_SECRECY_N, tag)
         [] tt = IFC_INTEGRITY_N -> ifc_add_privilege(ctx, IFC_INTEGRITY_N, tag)
         [] OTHER -> <<-EINVAL, ctx>>
  ELSE CASE tt = IFC_SECRECY -> ifc_remove_tag(ctx, IFC_SECRECY, tag)
         [] tt = IFC_INTEGRITY -> ifc_remove_tag(ctx, IFC_INTEGRITY, tag)
         [] tt = IFC_SECRECY_P -> ifc_remove_privilege(ctx, IFC_SECRECY_P, tag)
         [] tt = IFC_INTEGRITY_P -> ifc_remove_privilege(ctx, IFC_INTEGRITY_P, tag)
         [] tt = IFC_SECRECY_N -> ifc_remove_privilege(ctx, IFC_SECRECY_N, tag)
         [] tt = IFC_INTEGRITY_N -> ifc_remove_privilege(ctx, IFC_INTEGRITY_N, tag)
         [] OTHER -> <<-EINVAL, ctx>>

\* ifc_write_self as a function of the caller's context: <<rv, context>>
write_self_result(ctx, count, op, tt, tag) ==
  IF count < SizeofTagMsg THEN <<-ENOMEM, ctx>>
  ELSE IF ~ifc_tag_valid(tag) THEN <<-EINVAL, ctx>>
  ELSE LET r == write_self_switch(ctx, op, tt, tag)
       IN IF r[1] = 0 THEN <<SizeofTagMsg, r[2]>> ELSE r

\* ifc_write_self with one context shared by every live credential, as if
\* a duplicated credential pointed to its source's context
ifc_write_self_shared(cur, count, op, tt, tag) ==
  LET cifc == current_ifc(cur)
      r == write_self_result(cred_ifc[cifc], count, op, tt, tag)
  IN /\ cred_ifc' = [c \in Creds |-> IF c \in cred_live THEN r[2]
                                     ELSE cred_ifc[c]]
     /\ last' = Last("ifc_write_self", cur, r[1],
                     [count |-> count, op |-> op, tag_type |-> tt, tag |-> tag])
     /\ out' = <<>>
     /\ UNCHANGED <<hostVars, ifc_tag_count, provVars>>

ifc_write_self(cur, count, op, tt, tag) ==
  LET cifc == current_ifc(cur)
      r == write_self_result(cred_ifc[cifc], count, op, tt, tag)
  IN /\ cred_ifc' = [cred_ifc EXCEPT ![cifc] = r[2]]
     /\ last' = Last("ifc_write_self", cur, r[1],
                     [count |-> count, op |-> op, tag_type |-> tt, tag |-> tag])
     /\ out' = <<>>
     /\ UNCHANGED <<hostVars, ifc_tag_count, provVars>>

ifc_read_self(cur, count, copy_fails) ==
  LET rv == IF count < SizeofContext THEN -ENOMEM
            ELSE IF copy_fails THEN -EAGAIN
            ELSE SizeofContext
  IN /\ last' = Last("ifc_read_self", cur, rv,
                     [count |-> count, copy_fails |-> copy_fails])
     /\ out' = <<>>
     /\ UNCHANGED <<hostVars, ifcVars, provVars>>

ifc_write_tag(cur) ==
  /\ last' = Last("ifc_write_tag", cur, -EPERM, <<>>)
  /\ out' = <<>>
  /\ UNCHANGED <<hostVars, ifcVars, provVars>>

\* ifc_create_tag: the counter's value, the counter being incremented
ifc_create_tag(count) == count

\* what ifc_read_tag returns, given the results r1..r4 of its four
\* ifc_add_privilege calls: rv starts at 0 and each result is or-ed into it
read_tag_rv(r1, r2, r3, r4, copy_fails) ==
  LET rv == BitOr(BitOr(BitOr(BitOr(0, r1), r2), r3), r4)
  IN IF rv < 0 THEN rv
     ELSE IF copy_fails THEN -EAGAIN
     ELSE SizeofTag

\* ifc_read_tag as a function of the caller's context and of the minted
\* tag: <<rv, context>>
read_tag_result(ctx, tag, copy_fails) ==
  LET a1 == ifc_add_privilege(ctx, IFC_SECRECY_P, tag)
      a2 == ifc_add_privilege(a1[2], IFC_INTEGRITY_P, tag)
      a3 == ifc_add_privilege(a2[2], IFC_SECRECY_N, tag)
      a4 == ifc_add_privilege(a3[2], IFC_INTEGRITY_N, tag)
  IN <<read_tag_rv(a1[1], a2[1], a3[1], a4[1], copy_fails), a4[2]>>

ifc_read_tag(cur, count, copy_fails) ==
  LET cifc == current_ifc(cur)
      tag == ifc_create_tag(ifc_tag_count)
      r == read_tag_result(cred_ifc[cifc], tag, copy_fails)
  IN IF count < SizeofTag
     THEN /\ last' = Last("ifc_read_tag", cur, -ENOMEM,
                          [count |-> count, copy_fails |-> copy_fails, tag |-> 0])
          /\ out' = <<>>
          /\ UNCHANGED <<hostVars, ifcVars, provVars>>
     ELSE /\ ifc_tag_count <= MaxTag
          /\ ifc_tag_count' = ifc_tag_count + 1
          /\ cred_ifc' = [cred_ifc EXCEPT ![cifc] = r[2]]
          /\ last' = Last("ifc_read_tag", cur, r[1],
                          [count |-> count, copy_fails |-> copy_fails, tag |-> tag])
          /\ out' = <<>>
          /\ UNCHANGED <<hostVars, provVars>>

\* the switch of ifc_write_process, a grant also labelling the target:
\* the tag goes into the target's secrecy set as well
write_process_switch_labelling(cctx, octx, op, tt, tag) ==
  IF op = IFC_ADD_TAG /\ tt \in PrivKinds
  THEN IF ~ifc_contains_value(cctx[tt], tag) THEN <<-EPERM, octx>>
       ELSE LET r == ifc_add_privilege(octx, tt, tag)
            IN IF r[1] # 0 THEN r
               ELSE <<0, [r[2] EXCEPT ![IFC_SECRECY] = @ \cup {tag}]>>
  ELSE <<-EINVAL, octx>>

\* the switch of ifc_write_process, given the actor's and the target's
\* contexts: <<rv, target context>>
write_process_switch(cctx, octx, op, tt, tag) ==
  IF op = IFC_ADD_TAG
  THEN CASE tt = IFC_SECRECY_P ->
              IF ~ifc_contains_value(cctx[IFC_SECRECY_P], tag)
              THEN <<-EPERM, octx>>
              ELSE ifc_add_privilege(octx, IFC_SECRECY_P, tag)
         [] tt = IFC_INTEGRITY_P ->
              IF ~ifc_contains_value(cctx[IFC_INTEGRITY_P], tag)
              THEN <<-EPERM, octx>>
              ELSE ifc_add_privilege(octx, IFC_INTEGRITY_P, tag)
         [] tt = IFC_SECRECY_N ->
              IF ~ifc_contains_value(cctx[IFC_SECRECY_N], tag)
              THEN <<-EPERM, octx>>
              ELSE ifc_add_privilege(octx, IFC_SECRECY_N, tag)
         [] tt = IFC_INTEGRITY_N ->
              IF ~ifc_contains_value(cctx[IFC_INTEGRITY_N], tag)
              THEN <<-EPERM, octx>>
              ELSE ifc_add_privilege(octx, IFC_INTEGRITY_N, tag)
         [] OTHER -> <<-EINVAL, octx>>
  ELSE <<-EINVAL, octx>>

ifc_write_process(cur, count, op, tt, tag, pid) ==
  LET cifc == current_ifc(cur)
      oifc == context_from_pid(pid)
      args == [count |-> count, op |-> op, tag_type |-> tt, tag |-> tag,
               pid |-> pid]
      fail(rv) == /\ last' = Last("ifc_write_process", cur, rv, args)
                  /\ UNCHANGED cred_ifc
  IN /\ out' = <<>>
     /\ UNCHANGED <<hostVars, ifc_tag_count, provVars>>
     /\ IF count < SizeofTagMsg THEN fail(-ENOMEM)
        ELSE IF ~ifc_tag_valid(tag) THEN fail(-EINVAL)
        ELSE IF oifc = NULL THEN fail(-EINVAL)
        ELSE LET r == write_process_switch(cred_ifc[cifc], cred_ifc[oifc],
                                           op, tt, tag)
             IN /\ cred_ifc' = [cred_ifc EXCEPT ![oifc] = r[2]]
                /\ last' = Last("ifc_write_process", cur,
                                IF r[1] = 0 THEN SizeofTagMsg ELSE r[1], args)

ifc_read_process(cur, count, pid, copy_fails) ==
  LET oifc == context_from_pid(pid)
      rv == IF count < SizeofContextMsg THEN -ENOMEM
            ELSE IF oifc = NULL THEN -EINVAL
            ELSE IF copy_fails THEN -EAGAIN
            ELSE SizeofContextMsg
  IN /\ last' = Last("ifc_read_process", cur, rv,
                     [count |-> count, pid |-> pid, copy_fails |-> copy_fails])
     /\ out' = <<>>
     /\ UNCHANGED <<hostVars, ifcVars, provVars>>

(***************************************************************************)
(* Host attributes of the objects the hooks are called on.                 *)
(***************************************************************************)
\* inode->i_ino
i_ino(i) == CASE i = "f1" -> 11 [] i = "f2" -> 12 [] i = "fp" -> 13
              [] i = "si1" -> 14 [] i = "si2" -> 15

\* inode->i_sb
i_sb(i) == IF i = "f2" THEN "sb2" ELSE "sb1"

IS_PRIVATE(i) == i = "fp"

\* whether the inode's IFC context (inode_get_ifc) is labelled
inode_labelled(i) == i = "f1"

SOCK_INODE(sock) == IF sock = "s1" THEN "si1" ELSE "si2"

file_inode(file) == file

\* the NULL file pointer
NoFile == "NULL"

MAY_EXEC == "MAY_EXEC"
MAY_WRITE == "MAY_WRITE"
MAY_READ == "MAY_READ"
MAY_APPEND == "MAY_APPEND"
\* a permission bit the hooks do not look at
MAY_OTHER == "MAY_OTHER"
PROT_READ == "PROT_READ"
PROT_WRITE == "PROT_WRITE"
PROT_EXEC == "PROT_EXEC"

(***************************************************************************)
(* A hook runs on the provenance state s: the heap, the generator, the     *)
(* objects' pointers, the calls made so far (out), whether a bad pointer   *)
(* was dereferenced (fault), whether the thread died on it (dead) and the  *)
(* value returned (rv).  A dereference of NULL either kills the thread at  *)
(* that point (`oops`) or reads whatever is there (`junk`).                *)
(***************************************************************************)
HookState ==
  [heap |-> heap, gen |-> next_node_id, cred |-> cred_prov,
   inode |-> inode_prov, sb |-> sb_prov, sk |-> sk_prov, msg |-> msg_prov,
   shm |-> shm_prov, out |-> <<>>, fault |-> FALSE, dead |-> FALSE, rv |-> 0]

LiveAt(s, a) == a \in Addrs /\ s.heap[a].st = "live"

\* the thread reads or writes through pointer a
deref(s, a, oops) ==
  IF s.dead \/ LiveAt(s, a) THEN s
  ELSE [s EXCEPT !.fault = TRUE, !.dead = oops]

\* the value of flag f of the record at a; behind a bad pointer the flags
\* named in junk read as set
flag(s, a, f, junk) == IF LiveAt(s, a) THEN s.heap[a][f] ELSE f \in junk

setflag(s, a, f) ==
  IF s.dead \/ ~LiveAt(s, a) THEN s ELSE [s EXCEPT !.heap[a][f] = TRUE]

return(s, rv) == IF s.dead THEN s ELSE [s EXCEPT !.rv = rv]

sink(s, call, type, from, to) ==
  [s EXCEPT !.out = Append(@, Call(call, type, from, to, s.heap))]

\* record_edge: one relation handed to the sink; it reads both records
record_edge(s, type, from, to, oops) ==
  IF s.dead THEN s
  ELSE deref(deref(sink(s, "record_edge", type, from, to), from, oops),
             to, oops)

\* long_prov_write of a long record, then long_record_edge from its owner
long_prov_write(s, type, owner) ==
  IF s.dead THEN s ELSE sink(s, "long_prov_write", type, owner, NULL)

long_record_edge(s, type, from, oops) ==
  IF s.dead THEN s
  ELSE deref(sink(s, "long_record_edge", type, from, NULL), from, oops)

\* prov_update_version: the record's version counter goes up by one
prov_update_version(s, a, oops) ==
  IF s.dead THEN s
  ELSE IF LiveAt(s, a) THEN [s EXCEPT !.heap[a].version = @ + 1]
  ELSE deref(s, a, oops)

current_provenance(s, cur) == s.cred[current_cred(cur)]

\* the IFC module's part of prepare_creds: the new credential's context is
\* a copy, by value, of the old one's
ifc_cred_prepare(octx) == octx

(***************************************************************************)
(* security/provenance/hooks.c: credentials                                *)
(***************************************************************************)
\* cred_init_provenance: the record of the initial task
cred_init_provenance(gen) == set_node_id(ZeroNode(MSG_TASK), ASSIGN_NODE_ID, gen)

provenance_cred_alloc_blank(s, cred, ok) ==
  LET prov == alloc_provenance(s.heap, ok)
  IN IF prov = NULL THEN return(s, -ENOMEM)
     ELSE return([s EXCEPT
                    !.heap[prov] = set_node_id(ZeroNode(MSG_TASK),
                                               ASSIGN_NODE_ID, s.gen),
                    !.gen = @ + 1,
                    !.cred[cred] = prov], 0)

\* the release primitive as the hooks call it
release(s, a) ==
  LET s1 == sink(s, "free_provenance", "free", a, NULL)
  IN IF LiveAt(s, a) THEN [s1 EXCEPT !.heap = free_provenance(s.heap, a)]
     ELSE s1

provenance_cred_free(s, cred) ==
  [release(s, s.cred[cred]) EXCEPT !.cred[cred] = NULL]

\* provenance_cred_prepare recording the relation from the new record to
\* the old one
provenance_cred_prepare_reversed(s, new, old, new_ifc, ok, oops, junk) ==
  LET old_prov == s.cred[old]
      prov == alloc_provenance(s.heap, ok)
  IN IF prov = NULL THEN return(s, -ENOMEM)
     ELSE LET s1 == [s EXCEPT
                       !.heap[prov] = set_node_id(ZeroNode(MSG_TASK),
                                                  ASSIGN_NODE_ID, s.gen),
                       !.gen = @ + 1]
              s2 == IF new_ifc = NoIfc THEN deref(s1, NULL, oops) ELSE s1
              labelled == IF new_ifc = NoIfc THEN "tracked" \in junk
                          ELSE ifc_is_labelled(new_ifc)
              s3 == IF labelled THEN setflag(s2, prov, "tracked") ELSE s2
              s4 == record_edge(s3, ED_FORK, prov, old_prov, oops)
          IN return(IF s4.dead THEN s4 ELSE [s4 EXCEPT !.cred[new] = prov], 0)

\* new_ifc: the context new->ifc points to (NoIfc: a NULL pointer)
provenance_cred_prepare(s, new, old, new_ifc, ok, oops, junk) ==
  LET old_prov == s.cred[old]
      prov == alloc_provenance(s.heap, ok)
  IN IF prov = NULL THEN return(s, -ENOMEM)
     ELSE LET s1 == [s EXCEPT
                       !.heap[prov] = set_node_id(ZeroNode(MSG_TASK),
                                                  ASSIGN_NODE_ID, s.gen),
                       !.gen = @ + 1]
              s2 == IF new_ifc = NoIfc THEN deref(s1, NULL, oops) ELSE s1
              labelled == IF new_ifc = NoIfc THEN "tracked" \in junk
                          ELSE ifc_is_labelled(new_ifc)
              s3 == IF labelled THEN setflag(s2, prov, "tracked") ELSE s2
              s4 == record_edge(s3, ED_FORK, old_prov, prov, oops)
          IN return(IF s4.dead THEN s4 ELSE [s4 EXCEPT !.cred[new] = prov], 0)

\* *prov = *old_prov
provenance_cred_transfer(s, new, old, oops) ==
  LET old_prov == s.cred[old]
      prov == s.cred[new]
      s1 == deref(deref(s, old_prov, oops), prov, oops)
  IN IF s1.dead \/ ~LiveAt(s, prov) \/ ~LiveAt(s, old_prov) THEN s1
     ELSE [s1 EXCEPT !.heap[prov] = s.heap[old_prov]]

provenance_task_fix_setuid(s, new, old, oops) ==
  return(record_edge(s, ED_CHANGE, s.cred[old], s.cred[new], oops), 0)

(***************************************************************************)
(* security/provenance/hooks.c: inodes and files                           *)
(***************************************************************************)
provenance_inode_alloc_security(s, cur, inode, ok, oops) ==
  LET cprov == current_provenance(s, cur)
      iprov == alloc_provenance(s.heap, ok)
      sprov == s.sb[i_sb(inode)]
  IN IF s.dead THEN s
     ELSE IF iprov = NULL THEN return(s, -ENOMEM)
     ELSE LET s1 == [s EXCEPT
                       !.heap[iprov] = set_node_id(ZeroNode(MSG_INODE),
                                                   i_ino(inode), s.gen)]
              \* memcpy(iprov->inode_info.sb_uuid, sprov->sb_info.uuid, ...)
              s2 == deref(s1, sprov, oops)
              s3 == IF s2.dead THEN s2 ELSE [s2 EXCEPT !.inode[inode] = iprov]
              s4 == IF inode_labelled(inode) THEN setflag(s3, iprov, "tracked")
                    ELSE s3
              s5 == record_edge(s4, ED_CREATE, cprov, iprov, oops)
          IN return(s5, 0)

\* the release is guarded by "if(!prov)": it runs only for a NULL pointer
provenance_inode_free_security(s, inode) ==
  LET prov == s.inode[inode]
      s1 == IF prov = NULL THEN release(s, prov) ELSE s
  IN [s1 EXCEPT !.inode[inode] = NULL]

\* provenance_inode_permission recording the read before the write
provenance_inode_permission_read_first(s, cur, inode, mask, ok, oops) ==
  LET cprov == current_provenance(s, cur)
  IN IF s.dead THEN s
     ELSE IF IS_PRIVATE(inode) THEN return(s, 0)
     ELSE LET s1 == IF s.inode[inode] = NULL
                    THEN provenance_inode_alloc_security(s, cur, inode, ok, oops)
                    ELSE s
              iprov == s1.inode[inode]
              m == mask \cap {MAY_READ, MAY_WRITE, MAY_EXEC, MAY_APPEND}
              s2 == IF m \cap {MAY_READ} # {}
                    THEN record_edge(s1, ED_READ, iprov, cprov, oops) ELSE s1
              s3 == IF m \cap {MAY_WRITE, MAY_APPEND} # {}
                    THEN record_edge(s2, ED_WRITE, cprov, iprov, oops) ELSE s2
              s4 == IF m \cap {MAY_EXEC} # {}
                    THEN record_edge(s3, ED_EXEC, iprov, cprov, oops) ELSE s3
          IN return(s4, 0)

provenance_inode_permission(s, cur, inode, mask, ok, oops) ==
  LET cprov == current_provenance(s, cur)
  IN IF s.dead THEN s
     ELSE IF IS_PRIVATE(inode) THEN return(s, 0)
     ELSE LET s1 == IF s.inode[inode] = NULL
                    THEN provenance_inode_alloc_security(s, cur, inode, ok, oops)
                    ELSE s
              iprov == s1.inode[inode]
              m == mask \cap {MAY_READ, MAY_WRITE, MAY_EXEC, MAY_APPEND}
              s2 == IF m \cap {MAY_WRITE, MAY_APPEND} # {}
                    THEN record_edge(s1, ED_WRITE, cprov, iprov, oops) ELSE s1
              s3 == IF m \cap {MAY_READ} # {}
                    THEN record_edge(s2, ED_READ, iprov, cprov, oops) ELSE s2
              s4 == IF m \cap {MAY_EXEC} # {}
                    THEN record_edge(s3, ED_EXEC, iprov, cprov, oops) ELSE s3
          IN return(s4, 0)

provenance_inode_link(s) == return(s, 0)

\* provenance_record_file_name without the final assignment of
\* name_recorded
provenance_record_file_name_unmarked(s, file, oops, junk) ==
  LET inode == file_inode(file)
      iprov == s.inode[inode]
      s1 == deref(s, iprov, oops)
  IN IF s1.dead THEN s1
     ELSE IF ~flag(s1, iprov, "name_recorded", junk)
             /\ flag(s1, iprov, "tracked", junk)
     THEN LET s2 == long_prov_write(s1, MSG_FILE_NAME, iprov)
          IN long_record_edge(s2, ED_NAMED, iprov, oops)
     ELSE s1

\* the one-time capture of a file's name
provenance_record_file_name(s, file, oops, junk) ==
  LET inode == file_inode(file)
      iprov == s.inode[inode]
      \* provenance_is_name_recorded(iprov), provenance_is_tracked(iprov)
      s1 == deref(s, iprov, oops)
  IN IF s1.dead THEN s1
     ELSE IF ~flag(s1, iprov, "name_recorded", junk)
             /\ flag(s1, iprov, "tracked", junk)
     THEN LET s2 == long_prov_write(s1, MSG_FILE_NAME, iprov)
              s3 == long_record_edge(s2, ED_NAMED, iprov, oops)
          IN setflag(deref(s3, iprov, oops), iprov, "name_recorded")
     ELSE s1

provenance_file_permission(s, cur, file, mask, ok, oops, junk) ==
  LET inode == file_inode(file)
      s1 == provenance_record_file_name(s, file, oops, junk)
      s2 == provenance_inode_permission(s1, cur, inode, mask, ok, oops)
  IN return(s2, 0)

provenance_file_open(s, cur, file, ok, oops, junk) ==
  LET cprov == current_provenance(s, cur)
      inode == file_inode(file)
      s1 == IF s.inode[inode] = NULL
            THEN provenance_inode_alloc_security(s, cur, inode, ok, oops)
            ELSE s
      s2 == provenance_record_file_name(s1, file, oops, junk)
      iprov == s2.inode[inode]
      s3 == record_edge(s2, ED_OPEN, iprov, cprov, oops)
  IN return(s3, 0)

\* file = NoFile: an anonymous mapping (file == NULL)
provenance_mmap_file(s, cur, file, prot, oops, junk) ==
  LET cprov == current_provenance(s, cur)
  IN IF file = NoFile THEN return(s, 0)
     ELSE LET s1 == provenance_record_file_name(s, file, oops, junk)
              inode == file_inode(file)
              iprov == s1.inode[inode]
              p == prot \cap {PROT_EXEC, PROT_READ, PROT_WRITE}
              s2 == IF p \cap {PROT_WRITE, PROT_EXEC} # {}
                    THEN record_edge(s1, ED_MMAP, cprov, iprov, oops) ELSE s1
              s3 == IF p \cap {PROT_READ, PROT_EXEC, PROT_WRITE} # {}
                    THEN record_edge(s2, ED_MMAP, iprov, cprov, oops) ELSE s2
          IN return(s3, 0)

\* provenance_file_ioctl raising the inode's version after the read edge
provenance_file_ioctl_late_bump(s, cur, file, ok, oops, junk) ==
  LET cprov == current_provenance(s, cur)
      inode == file_inode(file)
      s1 == IF s.inode[inode] = NULL
            THEN provenance_inode_alloc_security(s, cur, inode, ok, oops)
            ELSE s
      s2 == provenance_record_file_name(s1, file, oops, junk)
      iprov == s2.inode[inode]
      s3 == record_edge(s2, ED_WRITE, cprov, iprov, oops)
      s4 == record_edge(s3, ED_READ, iprov, cprov, oops)
      s5 == prov_update_version(s4, iprov, oops)
      s6 == prov_update_version(s5, cprov, oops)
  IN return(s6, 0)

provenance_file_ioctl(s, cur, file, ok, oops, junk) ==
  LET cprov == current_provenance(s, cur)
      inode == file_inode(file)
      s1 == IF s.inode[inode] = NULL
            THEN provenance_inode_alloc_security(s, cur, inode, ok, oops)
            ELSE s
      s2 == provenance_record_file_name(s1, file, oops, junk)
      iprov == s2.inode[inode]
      s3 == record_edge(s2, ED_WRITE, cprov, iprov, oops)
      s4 == prov_update_version(s3, iprov, oops)
      s5 == record_edge(s4, ED_READ, iprov, cprov, oops)
      s6 == prov_update_version(s5, cprov, oops)
  IN return(s6, 0)

(***************************************************************************)
(* security/provenance/hooks.c: superblocks                                *)
(***************************************************************************)
provenance_sb_alloc_security(s, sb, ok) ==
  LET sbprov == alloc_provenance(s.heap, ok)
  IN IF sbprov = NULL THEN return(s, -ENOMEM)
     ELSE return([s EXCEPT !.heap[sbprov] = ZeroNode(MSG_SB),
                           !.sb[sb] = sbprov], 0)

provenance_sb_free_security(s, sb) ==
  [release(s, s.sb[sb]) EXCEPT !.sb[sb] = NULL]

\* copies (or draws) the uuid into the record
provenance_sb_kern_mount(s, sb, oops) == return(deref(s, s.sb[sb], oops), 0)

(***************************************************************************)
(* security/provenance/hooks.c: messages and shared memory                 *)
(***************************************************************************)
\* ifc: the context msg->ifc points to (NoIfc: a NULL pointer).  The label
\* is consulted under "if(!ifc)", that is only through a NULL pointer.
provenance_msg_msg_alloc_security(s, cur, msg, ifc, ok, oops, junk) ==
  LET cprov == current_provenance(s, cur)
      mprov == alloc_provenance(s.heap, ok)
  IN IF mprov = NULL THEN return(s, -ENOMEM)
     ELSE LET s1 == [s EXCEPT
                       !.heap[mprov] = set_node_id(ZeroNode(MSG_MSG),
                                                   ASSIGN_NODE_ID, s.gen),
                       !.gen = @ + 1]
              s2 == IF ifc = NoIfc
                    THEN LET d == deref(s1, NULL, oops)
                         IN IF "tracked" \in junk
                            THEN deref(setflag(d, mprov, "tracked"), NULL, oops)
                            ELSE d
                    ELSE s1
              s3 == IF s2.dead THEN s2 ELSE [s2 EXCEPT !.msg[msg] = mprov]
              s4 == record_edge(s3, ED_CREATE, cprov, mprov, oops)
          IN return(s4, 0)

provenance_msg_msg_free_security(s, msg) ==
  release([s EXCEPT !.msg[msg] = NULL], s.msg[msg])

provenance_msg_queue_msgsnd(s, cur, msg, oops) ==
  return(record_edge(s, ED_WRITE, current_provenance(s, cur), s.msg[msg],
                     oops), 0)

\* target: the task that will receive the message
provenance_msg_queue_msgrcv(s, msg, target, oops) ==
  LET cprov == s.cred[task_cred[target]]
      mprov == s.msg[msg]
  IN return(record_edge(s, ED_READ, mprov, cprov, oops), 0)

provenance_shm_alloc_security(s, cur, shp, ifc, ok, oops, junk) ==
  LET cprov == current_provenance(s, cur)
      sprov == alloc_provenance(s.heap, ok)
  IN IF sprov = NULL THEN return(s, -ENOMEM)
     ELSE LET s1 == [s EXCEPT
                       !.heap[sprov] = set_node_id(ZeroNode(MSG_SHM),
                                                   ASSIGN_NODE_ID, s.gen),
                       !.gen = @ + 1]
              s2 == IF ifc = NoIfc
                    THEN LET d == deref(s1, NULL, oops)
                         IN IF "tracked" \in junk
                            THEN deref(setflag(d, sprov, "tracked"), NULL, oops)
                            ELSE d
                    ELSE s1
              s3 == IF s2.dead THEN s2 ELSE [s2 EXCEPT !.shm[shp] = sprov]
              s4 == record_edge(s3, ED_ATTACH, sprov, cprov, oops)
              s5 == record_edge(s4, ED_ATTACH, cprov, sprov, oops)
          IN return(s5, 0)

provenance_shm_free_security(s, shp) ==
  [release(s, s.shm[shp]) EXCEPT !.shm[shp] = NULL]

provenance_shm_shmat(s, cur, shp, rdonly, oops) ==
  LET cprov == current_provenance(s, cur)
      sprov == s.shm[shp]
  IN IF sprov = NULL THEN return(s, -ENOMEM)
     ELSE IF rdonly
     THEN return(record_edge(s, ED_ATTACH, sprov, cprov, oops), 0)
     ELSE return(record_edge(record_edge(s, ED_ATTACH, sprov, cprov, oops),
                             ED_ATTACH, cprov, sprov, oops), 0)

(***************************************************************************)
(* security/provenance/hooks.c: sockets                                    *)
(***************************************************************************)
provenance_sk_alloc_security(s, sk, ok) ==
  LET skprov == alloc_provenance(s.heap, ok)
  IN IF s.dead THEN s
     ELSE IF skprov = NULL THEN return(s, -ENOMEM)
     ELSE return([s EXCEPT
                    !.heap[skprov] = set_node_id(ZeroNode(MSG_SOCK),
                                                 ASSIGN_NODE_ID, s.gen),
                    !.gen = @ + 1,
                    !.sk[sk] = skprov], 0)

provenance_sk_free_security(s, sk) ==
  [release(s, s.sk[sk]) EXCEPT !.sk[sk] = NULL]

provenance_socket_post_create(s, cur, sock, kern, ok, oops) ==
  LET cprov == current_provenance(s, cur)
      iprov == s.inode[SOCK_INODE(sock)]
  IN IF kern THEN return(s, 0)
     ELSE LET s1 == IF s.sk[sock] = NULL
                    THEN provenance_sk_alloc_security(s, sock, ok)
                    ELSE s
              skprov == s1.sk[sock]
              \* skprov->sock_info.type = type; ...
              s2 == deref(s1, skprov, oops)
              s3 == record_edge(s2, ED_CREATE, cprov, skprov, oops)
              s4 == record_edge(s3, ED_ASSOCIATE, skprov, iprov, oops)
          IN return(s4, 0)

\* the one-time capture of a socket's address
provenance_record_address(s, sock, oops, junk) ==
  LET skprov == s.sk[sock]
      s1 == deref(s, skprov, oops)
  IN IF s1.dead THEN s1
     ELSE IF ~flag(s1, skprov, "name_recorded", junk)
             /\ flag(s1, skprov, "tracked", junk)
     THEN LET s2 == long_prov_write(s1, MSG_ADDR, skprov)
              s3 == long_record_edge(s2, ED_NAMED, skprov, oops)
          IN setflag(deref(s3, skprov, oops), skprov, "name_recorded")
     ELSE s1

\* provenance_socket_bind checking for the socket's record before it looks
\* at the caller's opaque flag
provenance_socket_bind_node_first(s, cur, sock, oops, junk) ==
  LET cprov == current_provenance(s, cur)
      skprov == s.sk[sock]
      s0 == deref(s, cprov, oops)
  IN IF s0.dead THEN s0
     ELSE IF skprov = NULL THEN return(s0, -ENOMEM)
     ELSE IF flag(s0, cprov, "opaque", junk) THEN return(s0, 0)
     ELSE LET s1 == provenance_record_address(s0, sock, oops, junk)
              s2 == record_edge(s1, ED_BIND, cprov, skprov, oops)
          IN return(s2, 0)

provenance_socket_bind(s, cur, sock, oops, junk) ==
  LET cprov == current_provenance(s, cur)
      skprov == s.sk[sock]
      s0 == deref(s, cprov, oops)
  IN IF s0.dead THEN s0
     ELSE IF flag(s0, cprov, "opaque", junk) THEN return(s0, 0)
     ELSE IF skprov = NULL THEN return(s0, -ENOMEM)
     ELSE LET s1 == provenance_record_address(s0, sock, oops, junk)
              s2 == record_edge(s1, ED_BIND, cprov, skprov, oops)
          IN return(s2, 0)

provenance_socket_connect(s, cur, sock, oops, junk) ==
  LET cprov == current_provenance(s, cur)
      skprov == s.sk[sock]
      s0 == deref(s, cprov, oops)
  IN IF s0.dead THEN s0
     ELSE IF flag(s0, cprov, "opaque", junk) THEN return(s0, 0)
     ELSE IF skprov = NULL THEN return(s0, -ENOMEM)
     ELSE LET s1 == provenance_record_address(s0, sock, oops, junk)
              s2 == record_edge(s1, ED_CONNECT, cprov, skprov, oops)
          IN return(s2, 0)

provenance_socket_listen(s, cur, sock, oops) ==
  return(record_edge(s, ED_LISTEN, current_provenance(s, cur), s.sk[sock],
                     oops), 0)

provenance_socket_sendmsg(s, cur, sock, ok, oops) ==
  provenance_inode_permission(s, cur, SOCK_INODE(sock), {MAY_WRITE}, ok, oops)

provenance_socket_recvmsg(s, cur, sock, ok, oops) ==
  provenance_inode_permission(s, cur, SOCK_INODE(sock), {MAY_READ}, ok, oops)

provenance_socket_accept(s, cur, sock, newsock, oops) ==
  LET cprov == current_provenance(s, cur)
      skprov == s.inode[SOCK_INODE(sock)]
      nskprov == s.inode[SOCK_INODE(newsock)]
      s1 == record_edge(s, ED_CREATE, skprov, nskprov, oops)
      s2 == record_edge(s1, ED_ACCEPT, nskprov, cprov, oops)
  IN return(s2, 0)

provenance_unix_stream_connect(s, cur, sock, other, newsk, oops) ==
  LET cprov == current_provenance(s, cur)
      skprov == s.sk[sock]
      nskprov == s.sk[newsk]
      okprov == s.sk[other]
      s1 == record_edge(s, ED_CONNECT, cprov, skprov, oops)
      s2 == record_edge(s1, ED_ASSOCIATE, skprov, nskprov, oops)
      s3 == record_edge(s2, ED_ASSOCIATE, skprov, okprov, oops)
  IN return(s3, 0)

provenance_unix_may_send(s, sock, other, oops) ==
  return(record_edge(s, ED_UNKNOWN, s.sk[sock], s.sk[other], oops), 0)

(***************************************************************************)
(* security/provenance/hooks.c: program execution                          *)
(***************************************************************************)
\* cred: bprm->cred
provenance_bprm_set_creds(s, cred, ok) ==
  IF s.cred[cred] = NULL THEN provenance_cred_alloc_blank(s, cred, ok)
  ELSE return(s, 0)

\* cred: bprm->cred, file: bprm->file
provenance_bprm_committing_creds(s, cur, cred, file, oops) ==
  LET cprov == current_provenance(s, cur)
      nprov == s.cred[cred]
      iprov == s.inode[file_inode(file)]
      s1 == record_edge(s, ED_CREATE, cprov, nprov, oops)
  IN record_edge(s1, ED_CREATE, iprov, nprov, oops)

(***************************************************************************)
(* The hooks as the kernel calls them (provenance_hooks[]).  A call runs   *)
(* the handler on the current state and installs its result.  The inputs   *)
(* oops and junk only matter to a handler that went through a bad pointer. *)
(***************************************************************************)
Junk == {{}, {"tracked"}, {"opaque"}}

\* the number of long-form records written for the node at address a
LongWrites(calls, a) ==
  Cardinality({i \in 1..Len(calls) :
                 calls[i].call = "long_prov_write" /\ calls[i].from = a})

Tick == nops < MaxOps /\ nops' = nops + 1

Commit(op, cur, args, s, oops, junk) ==
  /\ (oops \/ junk # {}) => s.fault
  /\ oops => s.dead
  /\ heap' = s.heap
  /\ next_node_id' = s.gen
  /\ cred_prov' = s.cred
  /\ inode_prov' = s.inode
  /\ sb_prov' = s.sb
  /\ sk_prov' = s.sk
  /\ msg_prov' = s.msg
  /\ shm_prov' = s.shm
  /\ out' = s.out
  /\ named' = [a \in Addrs |-> named[a] + LongWrites(s.out, a)]
  /\ last' = LastF(op, cur, s.rv, args, s.fault, ~s.dead)
  /\ UNCHANGED ifcVars

Running == {p \in Pids : task_cred[p] # NULL}

security_cred_alloc_blank(cred, ok) ==
  LET s == provenance_cred_alloc_blank(HookState, cred, ok)
  IN /\ cred \notin cred_live
     /\ cred_live' = IF s.rv = 0 THEN cred_live \cup {cred} ELSE cred_live
     /\ UNCHANGED task_cred
     /\ Commit("cred_alloc_blank", 0, [cred |-> cred, ok |-> ok], s,
               FALSE, {})

security_cred_free(cred) ==
  /\ cred \in cred_live
  /\ \A p \in Pids : task_cred[p] # cred
  /\ cred_live' = cred_live \ {cred}
  /\ UNCHANGED task_cred
  /\ Commit("cred_free", 0, [cred |-> cred],
            provenance_cred_free(HookState, cred), FALSE, {})

\* prepare_creds() on behalf of a new task: the new credential starts as a
\* copy of the caller's, the security modules prepare it, and the child
\* runs with it
copy_process(cur, child, new, ok, oops, junk) ==
  LET old == current_cred(cur)
      new_ifc == ifc_cred_prepare(cred_ifc[old])
      s == provenance_cred_prepare(HookState, new, old, new_ifc, ok, oops,
                                   junk)
      done == ~s.dead /\ s.rv = 0
  IN /\ task_cred[child] = NULL
     /\ new \notin cred_live
     /\ cred_live' = IF done THEN cred_live \cup {new} ELSE cred_live
     /\ task_cred' = IF done THEN [task_cred EXCEPT ![child] = new]
                     ELSE task_cred
     /\ cred_ifc' = IF done THEN [cred_ifc EXCEPT ![new] = new_ifc]
                    ELSE cred_ifc
     /\ UNCHANGED ifc_tag_count
     /\ (oops \/ junk # {}) => s.fault
     /\ oops => s.dead
     /\ heap' = s.heap
     /\ next_node_id' = s.gen
     /\ cred_prov' = s.cred
     /\ UNCHANGED <<inode_prov, sb_prov, sk_prov, msg_prov, shm_prov, named>>
     /\ out' = s.out
     /\ last' = LastF("copy_process", cur, s.rv,
                      [child |-> child, new |-> new, old |-> old, ok |-> ok],
                      s.fault, ~s.dead)

security_cred_transfer(new, old, oops) ==
  /\ new \in cred_live /\ old \in cred_live /\ new # old
  /\ UNCHANGED hostVars
  /\ Commit("cred_transfer", 0, [new |-> new, old |-> old],
            provenance_cred_transfer(HookState, new, old, oops), oops, {})

security_task_fix_setuid(cur, new, oops) ==
  /\ new \in cred_live /\ new # current_cred(cur)
  /\ UNCHANGED hostVars
  /\ Commit("task_fix_setuid", cur, [new |-> new, old |-> current_cred(cur)],
            provenance_task_fix_setuid(HookState, new, current_cred(cur),
                                       oops), oops, {})

Masks == {{MAY_READ}, {MAY_WRITE, MAY_APPEND}, {MAY_EXEC}, {MAY_OTHER},
          {MAY_READ, MAY_WRITE, MAY_EXEC}}
Prots == {{PROT_READ}, {PROT_WRITE}, {}}

security_inode_alloc_security(cur, inode, ok, oops) ==
  /\ inode_prov[inode] = NULL
  /\ UNCHANGED hostVars
  /\ Commit("inode_alloc_security", cur, [inode |-> inode],
            provenance_inode_alloc_security(HookState, cur, inode, ok, oops),
            oops, {})

security_inode_free_security(inode) ==
  /\ UNCHANGED hostVars
  /\ Commit("inode_free_security", 0, [inode |-> inode],
            provenance_inode_free_security(HookState, inode), FALSE, {})

security_inode_permission(cur, inode, mask, ok, oops) ==
  /\ ~ok => inode_prov[inode] = NULL
  /\ UNCHANGED hostVars
  /\ Commit("inode_permission", cur,
            [inode |-> inode, mask |-> mask, ok |-> ok],
            provenance_inode_permission(HookState, cur, inode, mask, ok,
                                        oops), oops, {})

security_inode_link(cur) ==
  /\ UNCHANGED hostVars
  /\ Commit("inode_link", cur, <<>>, provenance_inode_link(HookState),
            FALSE, {})

security_file_permission(cur, file, mask, ok, oops, junk) ==
  /\ ~ok => inode_prov[file_inode(file)] = NULL
  /\ UNCHANGED hostVars
  /\ Commit("file_permission", cur,
            [file |-> file, mask |-> mask, ok |-> ok],
            provenance_file_permission(HookState, cur, file, mask, ok, oops,
                                       junk), oops, junk)

security_file_open(cur, file, ok, oops, junk) ==
  /\ ~ok => inode_prov[file_inode(file)] = NULL
  /\ UNCHANGED hostVars
  /\ Commit("file_open", cur, [file |-> file, ok |-> ok],
            provenance_file_open(HookState, cur, file, ok, oops, junk),
            oops, junk)

security_mmap_file(cur, file, prot, oops, junk) ==
  /\ UNCHANGED hostVars
  /\ Commit("mmap_file", cur, [file |-> file, prot |-> prot],
            provenance_mmap_file(HookState, cur, file, prot, oops, junk),
            oops, junk)

security_file_ioctl(cur, file, ok, oops, junk) ==
  /\ ~ok => inode_prov[file_inode(file)] = NULL
  /\ UNCHANGED hostVars
  /\ Commit("file_ioctl", cur, [file |-> file, ok |-> ok],
            provenance_file_ioctl(HookState, cur, file, ok, oops, junk),
            oops, junk)

security_sb_alloc_security(sb, ok) ==
  /\ sb_prov[sb] = NULL
  /\ UNCHANGED hostVars
  /\ Commit("sb_alloc_security", 0, [sb |-> sb],
            provenance_sb_alloc_security(HookState, sb, ok), FALSE, {})

security_sb_free_security(sb) ==
  /\ UNCHANGED hostVars
  /\ Commit("sb_free_security", 0, [sb |-> sb],
            provenance_sb_free_security(HookState, sb), FALSE, {})

security_sb_kern_mount(sb, oops) ==
  /\ UNCHANGED hostVars
  /\ Commit("sb_kern_mount", 0, [sb |-> sb],
            provenance_sb_kern_mount(HookState, sb, oops), oops, {})

security_bprm_set_creds(cred, ok) ==
  LET s == provenance_bprm_set_creds(HookState, cred, ok)
  IN /\ ~ok => cred_prov[cred] = NULL
     /\ cred_live' = IF s.rv = 0 THEN cred_live \cup {cred} ELSE cred_live
     /\ UNCHANGED task_cred
     /\ Commit("bprm_set_creds", 0, [cred |-> cred], s, FALSE, {})

security_bprm_committing_creds(cur, cred, file, oops) ==
  /\ cred \in cred_live
  /\ UNCHANGED hostVars
  /\ Commit("bprm_committing_creds", cur, [cred |-> cred, file |-> file],
            provenance_bprm_committing_creds(HookState, cur, cred, file,
                                             oops), oops, {})

security_msg_msg_alloc_security(cur, msg, ifc, ok, oops, junk) ==
  /\ msg_prov[msg] = NULL
  /\ UNCHANGED hostVars
  /\ Commit("msg_msg_alloc_security", cur, [msg |-> msg, ifc |-> ifc],
            provenance_msg_msg_alloc_security(HookState, cur, msg, ifc, ok,
                                              oops, junk), oops, junk)

security_msg_msg_free_security(msg) ==
  /\ UNCHANGED hostVars
  /\ Commit("msg_msg_free_security", 0, [msg |-> msg],
            provenance_msg_msg_free_security(HookState, msg), FALSE, {})

security_msg_queue_msgsnd(cur, msg, oops) ==
  /\ UNCHANGED hostVars
  /\ Commit("msg_queue_msgsnd", cur, [msg |-> msg],
            provenance_msg_queue_msgsnd(HookState, cur, msg, oops), oops, {})

\* the receive hook run with the calling task in place of the target
security_msg_queue_msgrcv_current(cur, msg, target, oops) ==
  /\ UNCHANGED hostVars
  /\ Commit("msg_queue_msgrcv", cur, [msg |-> msg, target |-> target],
            provenance_msg_queue_msgrcv(HookState, msg, cur, oops),
            oops, {})

security_msg_queue_msgrcv(cur, msg, target, oops) ==
  /\ UNCHANGED hostVars
  /\ Commit("msg_queue_msgrcv", cur, [msg |-> msg, target |-> target],
            provenance_msg_queue_msgrcv(HookState, msg, target, oops),
            oops, {})

security_shm_alloc_security(cur, shp, ifc, ok, oops, junk) ==
  /\ shm_prov[shp] = NULL
  /\ UNCHANGED hostVars
  /\ Commit("shm_alloc_security", cur, [shp |-> shp, ifc |-> ifc],
            provenance_shm_alloc_security(HookState, cur, shp, ifc, ok, oops,
                                          junk), oops, junk)

security_shm_free_security(shp) ==
  /\ UNCHANGED hostVars
  /\ Commit("shm_free_security", 0, [shp |-> shp],
            provenance_shm_free_security(HookState, shp), FALSE, {})

security_shm_shmat(cur, shp, rdonly, oops) ==
  /\ UNCHANGED hostVars
  /\ Commit("shm_shmat", cur, [shp |-> shp, rdonly |-> rdonly],
            provenance_shm_shmat(HookState, cur, shp, rdonly, oops),
            oops, {})

security_sk_alloc_security(sk, ok) ==
  /\ sk_prov[sk] = NULL
  /\ UNCHANGED hostVars
  /\ Commit("sk_alloc_security", 0, [sock |-> sk],
            provenance_sk_alloc_security(HookState, sk, ok), FALSE, {})

security_sk_free_security(sk) ==
  /\ UNCHANGED hostVars
  /\ Commit("sk_free_security", 0, [sock |-> sk],
            provenance_sk_free_security(HookState, sk), FALSE, {})

security_socket_post_create(cur, sock, kern, ok, oops) ==
  /\ ~ok => (sk_prov[sock] = NULL /\ ~kern)
  /\ UNCHANGED hostVars
  /\ Commit("socket_post_create", cur, [sock |-> sock, kern |-> kern],
            provenance_socket_post_create(HookState, cur, sock, kern, ok,
                                          oops), oops, {})

security_socket_bind(cur, sock, oops, junk) ==
  /\ UNCHANGED hostVars
  /\ Commit("socket_bind", cur, [sock |-> sock],
            provenance_socket_bind(HookState, cur, sock, oops, junk),
            oops, junk)

security_socket_connect(cur, sock, oops, junk) ==
  /\ UNCHANGED hostVars
  /\ Commit("socket_connect", cur, [sock |-> sock],
            provenance_socket_connect(HookState, cur, sock, oops, junk),
            oops, junk)

security_socket_listen(cur, sock, oops) ==
  /\ UNCHANGED hostVars
  /\ Commit("socket_listen", cur, [sock |-> sock],
            provenance_socket_listen(HookState, cur, sock, oops), oops, {})

security_socket_sendmsg(cur, sock, ok, oops) ==
  /\ ~ok => inode_prov[SOCK_INODE(sock)] = NULL
  /\ UNCHANGED hostVars
  /\ Commit("socket_sendmsg", cur, [sock |-> sock],
            provenance_socket_sendmsg(HookState, cur, sock, ok, oops),
            oops, {})

security_socket_recvmsg(cur, sock, ok, oops) ==
  /\ ~ok => inode_prov[SOCK_INODE(sock)] = NULL
  /\ UNCHANGED hostVars
  /\ Commit("socket_recvmsg", cur, [sock |-> sock],
            provenance_socket_recvmsg(HookState, cur, sock, ok, oops),
            oops, {})

security_socket_accept(cur, sock, newsock, oops) ==
  /\ sock # newsock
  /\ UNCHANGED hostVars
  /\ Commit("socket_accept", cur, [sock |-> sock, newsock |-> newsock],
            provenance_socket_accept(HookState, cur, sock, newsock, oops),
            oops, {})

\* newsk: the sock created for the accepting side; the model has no third
\* socket, so it is the peer's
security_unix_stream_connect(cur, sock, other, oops) ==
  /\ sock # other
  /\ UNCHANGED hostVars
  /\ Commit("unix_stream_connect", cur, [sock |-> sock, other |-> other],
            provenance_unix_stream_connect(HookState, cur, sock, other,
                                           other, oops), oops, {})

security_unix_may_send(cur, sock, other, oops) ==
  /\ sock # other
  /\ UNCHANGED hostVars
  /\ Commit("unix_may_send", cur, [sock |-> sock, other |-> other],
            provenance_unix_may_send(HookState, sock, other, oops), oops, {})

\* the control plane flags the calling process's node opaque
prov_set_opaque(cur) ==
  /\ UNCHANGED hostVars
  /\ Commit("prov_set_opaque", cur, <<>>,
            setflag(HookState, current_provenance(HookState, cur), "opaque"),
            FALSE, {})

(***************************************************************************)
(* The initial state: provenance_add_hooks() has given the initial task    *)
(* its record, the root filesystem's superblock has been allocated, and    *)
(* no other object has a record yet.                                       *)
(***************************************************************************)
InitHeap ==
  [a \in Addrs |-> IF a = 1 THEN cred_init_provenance(1)
                   ELSE IF a = 2 THEN ZeroNode(MSG_SB)
                   ELSE NoNode]

Init ==
  /\ task_cred = [p \in Pids |-> IF p = 1 THEN 1 ELSE NULL]
  /\ cred_live = {1}
  /\ cred_ifc = [c \in Creds |-> IF c = 1 THEN EmptyContext ELSE NoIfc]
  /\ ifc_tag_count = 1
  /\ heap = InitHeap
  /\ next_node_id = 2
  /\ cred_prov = [c \in Creds |-> IF c = 1 THEN 1 ELSE NULL]
  /\ inode_prov = [i \in Inodes |-> NULL]
  /\ sb_prov = [b \in Sbs |-> IF b = "sb1" THEN 2 ELSE NULL]
  /\ sk_prov = [k \in Socks |-> NULL]
  /\ msg_prov = [m \in Msgs |-> NULL]
  /\ shm_prov = [m \in Shms |-> NULL]
  /\ named = [a \in Addrs |-> 0]
  /\ out = <<>>
  /\ last = Last("init", 0, 0, <<>>)
  /\ nops = 0

PidArgs == 0..MaxPid

IfcNext ==
  \/ Tick /\ \E cur \in Running, count \in {SizeofTagMsg - 1, SizeofTagMsg},
                 op \in Ops, tt \in TagTypes, tag \in Tags :
               ifc_write_self(cur, count, op, tt, tag)
  \/ Tick /\ \E cur \in Running, count \in {SizeofContext - 1, SizeofContext},
                 cf \in BOOLEAN :
               ifc_read_self(cur, count, cf)
  \/ Tick /\ \E cur \in Running : ifc_write_tag(cur)
  \/ Tick /\ \E cur \in Running, count \in {SizeofTag - 1, SizeofTag},
                 cf \in BOOLEAN :
               ifc_read_tag(cur, count, cf)
  \/ Tick /\ \E cur \in Running, count \in {SizeofTagMsg - 1, SizeofTagMsg},
                 op \in Ops, tt \in TagTypes, tag \in Tags, pid \in PidArgs :
               ifc_write_process(cur, count, op, tt, tag, pid)
  \/ Tick /\ \E cur \in Running,
                 count \in {SizeofContextMsg - 1, SizeofContextMsg},
                 pid \in PidArgs, cf \in BOOLEAN :
               ifc_read_process(cur, count, pid, cf)
  \/ Tick /\ \E cur \in Running, child \in Pids, new \in Creds,
                 ok \in BOOLEAN :
               copy_process(cur, child, new, ok, FALSE, {})

SpecIfc == Init /\ [][IfcNext]_vars

(***************************************************************************)
(* Claims about the control plane.                                         *)
(***************************************************************************)
\* the context of the task with identifier pid, read through its credential
CtxOfPid(pid) == cred_ifc[task_cred[pid]]

\* C1: for every actor a, existing target b, privilege kind k and valid tag
\* t that a does not hold in its set k, a well-formed cross-process mutate
\* request (add or remove) for (k, t) on b returns -EPERM and leaves every
\* context as it was.
C1_DeniedWithoutPrivilege ==
  [][(/\ last'.op = "ifc_write_process"
      /\ last'.args.count >= SizeofTagMsg
      /\ last'.args.tag # 0
      /\ last'.args.tag_type \in PrivKinds
      /\ last'.args.pid \in Pids
      /\ task_cred[last'.args.pid] # NULL
      /\ last'.args.tag \notin CtxOfPid(last'.cur)[last'.args.tag_type])
     => (last'.ret = -EPERM /\ cred_ifc' = cred_ifc)]_vars

\* C2: right after a successful mint of tag t the minter holds t in all
\* four privilege sets and no other live credential's context holds t in
\* any privilege set.
C2_MintGrantsOnlyMinter ==
  (last.op = "ifc_read_tag" /\ last.ret > 0)
  => LET t == last.args.tag
         c == task_cred[last.cur]
     IN /\ \A k \in PrivKinds : t \in cred_ifc[c][k]
        /\ \A d \in cred_live \ {c} : \A k \in PrivKinds : t \notin cred_ifc[d][k]

SelfWrite(ctx, op, k, t) == write_self_result(ctx, SizeofTagMsg, op, k, t)[2]

RequestSize(op) ==
  CASE op \in {"ifc_write_self", "ifc_write_process"} -> SizeofTagMsg
    [] op = "ifc_read_self" -> SizeofContext
    [] op = "ifc_read_tag" -> SizeofTag
    [] op = "ifc_read_process" -> SizeofContextMsg

SizedOps ==
  {"ifc_write_self", "ifc_read_self", "ifc_read_tag", "ifc_write_process",
   "ifc_read_process"}

\* C13: as stated: a request to the self, tag or process endpoint whose
\* count is below the size of the request structure returns -EINVAL and
\* leaves every context and the tag counter as they were.
C13_UndersizedInvalid ==
  [][(last'.op \in SizedOps /\ last'.args.count < RequestSize(last'.op))
     => /\ last'.ret = -EINVAL
        /\ cred_ifc' = cred_ifc
        /\ ifc_tag_count' = ifc_tag_count]_vars


\* C14: as stated: a well-formed request to the process endpoint (a write
\* with a valid tag, or a read) that names a process identifier no task has
\* fails with a code of its own, one that is neither -EINVAL (invalid tag,
\* unknown tag-kind) nor any other code of the endpoints, and leaves every
\* context as it was.
C14_NoSuchProcess ==
  [][(/\ last'.op \in {"ifc_write_process", "ifc_read_process"}
      /\ last'.args.count >= RequestSize(last'.op)
      /\ (last'.op = "ifc_write_process" => last'.args.tag # 0)
      /\ context_from_pid(last'.args.pid) = NULL)
     => /\ last'.ret < 0
        /\ last'.ret \notin {-EINVAL, -ENOMEM, -EPERM, -EAGAIN}
        /\ cred_ifc' = cred_ifc]_vars


(***************************************************************************)
(* The result of a mint as a function of the results of its four adds.     *)
(* The initial states draw the four results; the one step applies          *)
(* ifc_read_tag's combination of them.                                     *)
(***************************************************************************)
\* what an add to a privilege set returns: success, invalid tag, set full
AddResults == {0, -EINVAL, -ENOMEM}

MintInit ==
  /\ task_cred = [p \in Pids |-> IF p = 1 THEN 1 ELSE NULL]
  /\ cred_live = {1}
  /\ cred_ifc = [c \in Creds |-> IF c = 1 THEN EmptyContext ELSE NoIfc]
  /\ ifc_tag_count = 1
  /\ heap = InitHeap
  /\ next_node_id = 2
  /\ cred_prov = [c \in Creds |-> IF c = 1 THEN 1 ELSE NULL]
  /\ inode_prov = [i \in Inodes |-> NULL]
  /\ sb_prov = [b \in Sbs |-> IF b = "sb1" THEN 2 ELSE NULL]
  /\ sk_prov = [k \in Socks |-> NULL]
  /\ msg_prov = [m \in Msgs |-> NULL]
  /\ shm_prov = [m \in Shms |-> NULL]
  /\ named = [a \in Addrs |-> 0]
  /\ out = <<>>
  /\ \E r1 \in AddResults, r2 \in AddResults, r3 \in AddResults,
        r4 \in AddResults, cf \in BOOLEAN :
       last = Last("adds", 1, 0, [adds |-> <<r1, r2, r3, r4>>,
                                  copy_fails |-> cf])
  /\ nops = 0

ifc_read_tag_returns ==
  /\ last.op = "adds"
  /\ LET r == last.args.adds
     IN last' = Last("ifc_read_tag", 1,
                     read_tag_rv(r[1], r[2], r[3], r[4], last.args.copy_fails),
                     last.args)
  /\ nops' = nops + 1
  /\ UNCHANGED <<hostVars, ifcVars, provVars, out>>

SpecMint == MintInit /\ [][ifc_read_tag_returns]_vars

C24_RemoveWithPrivilege ==
  [][(/\ last'.op = "ifc_write_process"
      /\ last'.args.count >= SizeofTagMsg
      /\ last'.args.op = IFC_REMOVE_TAG
      /\ last'.args.tag # 0
      /\ last'.args.tag_type \in PrivKinds
      /\ context_from_pid(last'.args.pid) # NULL
      /\ last'.args.tag \in CtxOfPid(last'.cur)[last'.args.tag_type])
     => /\ last'.ret = SizeofTagMsg
        /\ last'.args.tag
             \notin cred_ifc'[task_cred[last'.args.pid]][last'.args.tag_type]]_vars


\* C25: a credential's context gains a tag t in a privilege set k only by
\* a mint of t by its own process, by a cross-process request of an actor
\* that held t in its own set k, or by being duplicated from a context that
\* held t in k; never by a request on its own context.
C25_PrivilegeOnlyByMintOrGrant ==
  [][\A c \in cred_live' : \A k \in PrivKinds :
       \A t \in cred_ifc'[c][k] \ (IF c \in cred_live THEN cred_ifc[c][k] ELSE {}) :
       \/ /\ last'.op = "ifc_read_tag"
          /\ c = task_cred[last'.cur]
          /\ t = last'.args.tag
       \/ /\ last'.op = "ifc_write_process"
          /\ last'.args.tag = t
          /\ last'.args.tag_type = k
          /\ t \in CtxOfPid(last'.cur)[k]
       \/ /\ last'.op = "copy_process"
          /\ c = last'.args.new
          /\ t \in cred_ifc[last'.args.old][k]]_vars


\* C26: a mint that returns an error leaves the four privilege sets of the
\* requester as they were before the call.
C26_MintAllOrNothing ==
  [][(last'.op = "ifc_read_tag" /\ last'.ret < 0)
     => \A k \in PrivKinds :
          cred_ifc'[task_cred[last'.cur]][k] = cred_ifc[task_cred[last'.cur]][k]]_vars


\* C29: a cross-process mutate request changes the context of no
\* credential but the target's, never changes the target's secrecy or
\* integrity set, and on success changes the target's context by exactly
\* the requested tag added to the privilege set the tag-kind names.
C29_CrossProcessFrame ==
  [][(last'.op = "ifc_write_process")
     => LET oifc == context_from_pid(last'.args.pid)
            tt == last'.args.tag_type
        IN /\ \A c \in Creds : c # oifc => cred_ifc'[c] = cred_ifc[c]
           /\ (oifc # NULL)
              => \A k \in LabelKinds : cred_ifc'[oifc][k] = cred_ifc[oifc][k]
           /\ (last'.ret > 0)
              => /\ oifc # NULL
                 /\ tt \in PrivKinds
                 /\ cred_ifc'[oifc]
                      = [cred_ifc[oifc] EXCEPT ![tt] = @ \cup {last'.args.tag}]]_vars

\* a successful grant to another process, whose privilege set gained the
\* tag through it: the actor holds the tag it minted in all four sets, the
\* target holds it in the granted set only
C29_Witness ==
  /\ last.op = "ifc_write_process"
  /\ last.ret = SizeofTagMsg
  /\ last.args.pid # last.cur
  /\ LET actor == CtxOfPid(last.cur)
         target == CtxOfPid(last.args.pid)
     IN /\ \A k \in PrivKinds : last.args.tag \in actor[k]
        /\ \A k \in Kinds :
             target[k] = IF k = last.args.tag_type THEN {last.args.tag} ELSE {}


\* what msg->ifc or shp->shm_perm.ifc may point to: nothing, an unlabelled
\* context, a labelled one
IfcPtrs == {NoIfc, EmptyContext, [EmptyContext EXCEPT ![IFC_SECRECY] = {1}]}

ProvNext ==
  \/ Tick /\ \E cred \in Creds, ok \in BOOLEAN :
               security_cred_alloc_blank(cred, ok)
  \/ Tick /\ \E cred \in Creds : security_cred_free(cred)
  \/ Tick /\ \E cur \in Running, child \in Pids, new \in Creds,
                 ok \in BOOLEAN, oops \in BOOLEAN, junk \in Junk :
               copy_process(cur, child, new, ok, oops, junk)
  \/ Tick /\ \E new \in Creds, old \in Creds, oops \in BOOLEAN :
               security_cred_transfer(new, old, oops)
  \/ Tick /\ \E cur \in Running, new \in Creds, oops \in BOOLEAN :
               security_task_fix_setuid(cur, new, oops)
  \/ Tick /\ \E cred \in Creds, ok \in BOOLEAN :
               security_bprm_set_creds(cred, ok)
  \/ Tick /\ \E cur \in Running, cred \in Creds, file \in Files,
                 oops \in BOOLEAN :
               security_bprm_committing_creds(cur, cred, file, oops)
  \/ Tick /\ \E cur \in Running, inode \in Inodes, ok \in BOOLEAN,
                 oops \in BOOLEAN :
               security_inode_alloc_security(cur, inode, ok, oops)
  \/ Tick /\ \E inode \in Inodes : security_inode_free_security(inode)
  \/ Tick /\ \E cur \in Running, inode \in Inodes, mask \in Masks,
                 ok \in BOOLEAN, oops \in BOOLEAN :
               security_inode_permission(cur, inode, mask, ok, oops)
  \/ Tick /\ \E cur \in Running : security_inode_link(cur)
  \/ Tick /\ \E cur \in Running, file \in Files, mask \in Masks,
                 ok \in BOOLEAN, oops \in BOOLEAN, junk \in Junk :
               security_file_permission(cur, file, mask, ok, oops, junk)
  \/ Tick /\ \E cur \in Running, file \in Files, ok \in BOOLEAN,
                 oops \in BOOLEAN, junk \in Junk :
               security_file_open(cur, file, ok, oops, junk)
  \/ Tick /\ \E cur \in Running, file \in Files \cup {NoFile},
                 prot \in Prots, oops \in BOOLEAN, junk \in Junk :
               security_mmap_file(cur, file, prot, oops, junk)
  \/ Tick /\ \E cur \in Running, file \in Files, ok \in BOOLEAN,
                 oops \in BOOLEAN, junk \in Junk :
               security_file_ioctl(cur, file, ok, oops, junk)
  \/ Tick /\ \E sb \in Sbs, ok \in BOOLEAN :
               security_sb_alloc_security(sb, ok)
  \/ Tick /\ \E sb \in Sbs : security_sb_free_security(sb)
  \/ Tick /\ \E sb \in Sbs, oops \in BOOLEAN :
               security_sb_kern_mount(sb, oops)
  \/ Tick /\ \E cur \in Running, msg \in Msgs, ifc \in IfcPtrs,
                 ok \in BOOLEAN, oops \in BOOLEAN, junk \in Junk :
               security_msg_msg_alloc_security(cur, msg, ifc, ok, oops, junk)
  \/ Tick /\ \E msg \in Msgs : security_msg_msg_free_security(msg)
  \/ Tick /\ \E cur \in Running, msg \in Msgs, oops \in BOOLEAN :
               security_msg_queue_msgsnd(cur, msg, oops)
  \/ Tick /\ \E cur \in Running, msg \in Msgs, target \in Running,
                 oops \in BOOLEAN :
               security_msg_queue_msgrcv(cur, msg, target, oops)
  \/ Tick /\ \E cur \in Running, shp \in Shms, ifc \in IfcPtrs,
                 ok \in BOOLEAN, oops \in BOOLEAN, junk \in Junk :
               security_shm_alloc_security(cur, shp, ifc, ok, oops, junk)
  \/ Tick /\ \E shp \in Shms : security_shm_free_security(shp)
  \/ Tick /\ \E cur \in Running, shp \in Shms, rdonly \in BOOLEAN,
                 oops \in BOOLEAN :
               security_shm_shmat(cur, shp, rdonly, oops)
  \/ Tick /\ \E sk \in Socks, ok \in BOOLEAN :
               security_sk_alloc_security(sk, ok)
  \/ Tick /\ \E sk \in Socks : security_sk_free_security(sk)
  \/ Tick /\ \E cur \in Running, sock \in Socks, kern \in BOOLEAN,
                 ok \in BOOLEAN, oops \in BOOLEAN :
               security_socket_post_create(cur, sock, kern, ok, oops)
  \/ Tick /\ \E cur \in Running, sock \in Socks, oops \in BOOLEAN,
                 junk \in Junk :
               security_socket_bind(cur, sock, oops, junk)
  \/ Tick /\ \E cur \in Running, sock \in Socks, oops \in BOOLEAN,
                 junk \in Junk :
               security_socket_connect(cur, sock, oops, junk)
  \/ Tick /\ \E cur \in Running, sock \in Socks, oops \in BOOLEAN :
               security_socket_listen(cur, sock, oops)
  \/ Tick /\ \E cur \in Running, sock \in Socks, ok \in BOOLEAN,
                 oops \in BOOLEAN :
               security_socket_sendmsg(cur, sock, ok, oops)
  \/ Tick /\ \E cur \in Running, sock \in Socks, ok \in BOOLEAN,
                 oops \in BOOLEAN :
               security_socket_recvmsg(cur, sock, ok, oops)
  \/ Tick /\ \E cur \in Running, sock \in Socks, newsock \in Socks,
                 oops \in BOOLEAN :
               security_socket_accept(cur, sock, newsock, oops)
  \/ Tick /\ \E cur \in Running, sock \in Socks, other \in Socks,
                 oops \in BOOLEAN :
               security_unix_stream_connect(cur, sock, other, oops)
  \/ Tick /\ \E cur \in Running, sock \in Socks, other \in Socks,
                 oops \in BOOLEAN :
               security_unix_may_send(cur, sock, other, oops)
  \/ Tick /\ \E cur \in Running : prov_set_opaque(cur)

SpecProv == Init /\ [][ProvNext]_vars

(***************************************************************************)
(* Properties of the provenance hooks.                                     *)
(***************************************************************************)
\* the caller's record is live and flagged opaque
CallerOpaque(cur) ==
  LET cprov == cred_prov[task_cred[cur]]
  IN cprov \in Addrs /\ heap[cprov].st = "live" /\ heap[cprov].opaque

\* the calls of a hook, without the endpoints' snapshots
Emitted(calls) ==
  [i \in 1..Len(calls) |->
     <<calls[i].call, calls[i].type, calls[i].from, calls[i].to>>]

\* the number of ED_NAMED edges recorded from the node at address a
NamedEdges(calls, a) ==
  Cardinality({i \in 1..Len(calls) :
                 /\ calls[i].call = "long_record_edge"
                 /\ calls[i].type = ED_NAMED
                 /\ calls[i].from = a})

FileCaptureOps == {"file_permission", "file_open", "mmap_file", "file_ioctl"}
SockCaptureOps == {"socket_bind", "socket_connect"}
CaptureOps == FileCaptureOps \cup SockCaptureOps

\* the record of the object that the name-capturing call l was made on,
\* ip and sp being the inodes' and the sockets' pointers
CaptureNode(l, ip, sp) ==
  IF l.op \in FileCaptureOps
  THEN IF l.args.file \in Files THEN ip[file_inode(l.args.file)] ELSE NULL
  ELSE IF l.op \in SockCaptureOps THEN sp[l.args.sock]
  ELSE NULL

\* two name-capturing calls in a row on the same object, whose record is
\* a, both returning, a's name not recorded before the first
TwoCaptures(a) ==
  /\ last.op \in CaptureOps /\ last'.op \in CaptureOps
  /\ last.returned /\ last'.returned
  /\ (last.op \in SockCaptureOps => ~CallerOpaque(last.cur))
  /\ (last'.op \in SockCaptureOps => ~CallerOpaque(last'.cur))
  /\ a = CaptureNode(last, inode_prov, sk_prov)
  /\ a = CaptureNode(last', inode_prov', sk_prov')
  /\ heap[a].st = "live"
  /\ named[a] = LongWrites(out, a)

\* C3: as stated: name_recorded never goes back, and two name-capturing
\* calls in a row on the same node emit exactly one long-form record and
\* exactly one ED_NAMED edge between them.
C3_TwoCapturesEmitOne ==
  [][/\ \A a \in Addrs : heap[a].name_recorded => heap'[a].name_recorded
     /\ \A a \in Addrs :
          TwoCaptures(a)
          => /\ LongWrites(out, a) + LongWrites(out', a) = 1
             /\ NamedEdges(out, a) + NamedEdges(out', a) = 1]_vars

\* C3 (amended): name_recorded of a node never goes back to false; every
\* long-form name record of a node comes with one ED_NAMED edge from it,
\* in the one call that sets its name_recorded, so a node gets at most one
\* of each in its lifetime; two name-capturing calls in a row on the same
\* node emit exactly one of each between them when the node is tracked,
\* and none when it is not.
C3_NameCapturedOnceIfTracked ==
  [][/\ \A a \in Addrs : heap[a].name_recorded => heap'[a].name_recorded
     /\ \A a \in Addrs :
          /\ LongWrites(out', a) = NamedEdges(out', a)
          /\ LongWrites(out', a) =
               IF ~heap[a].name_recorded /\ heap'[a].name_recorded
               THEN 1 ELSE 0
     /\ \A a \in Addrs :
          TwoCaptures(a)
          => LET n == IF heap[a].tracked THEN 1 ELSE 0
             IN /\ LongWrites(out, a) + LongWrites(out', a) = n
                /\ NamedEdges(out, a) + NamedEdges(out', a) = n]_vars

\* a second name-capturing call on a tracked file whose name an earlier
\* call recorded: it emits no name record
C3_Witness ==
  /\ last.op \in FileCaptureOps
  /\ last.returned /\ ~last.fault
  /\ LET a == CaptureNode(last, inode_prov, sk_prov)
     IN /\ a \in Addrs
        /\ heap[a].st = "live" /\ heap[a].tracked /\ heap[a].name_recorded
        /\ named[a] = 1
        /\ LongWrites(out, a) = 0 /\ NamedEdges(out, a) = 0

\* C4: as stated: a non-opaque process binds a socket that has a record
\* whose name is not recorded, then connects it: the bind emits the address
\* record, the ED_NAMED edge from the socket's record and BIND from the
\* process to the socket, the connect emits CONNECT and nothing else.
C4_BindThenConnect ==
  [][LET sock == last.args.sock
         sk == sk_prov[sock]
         c == cred_prov[task_cred[last.cur]]
     IN (/\ last.op = "socket_bind" /\ last'.op = "socket_connect"
         /\ last'.cur = last.cur /\ last'.args.sock = sock
         /\ ~CallerOpaque(last.cur)
         /\ sk \in Addrs /\ sk_prov'[sock] = sk
         /\ last.returned /\ last'.returned
         /\ named[sk] = LongWrites(out, sk))
        => /\ Emitted(out) = << <<"long_prov_write", MSG_ADDR, sk, NULL>>,
                                <<"long_record_edge", ED_NAMED, sk, NULL>>,
                                <<"record_edge", ED_BIND, c, sk>> >>
           /\ Emitted(out') = << <<"record_edge", ED_CONNECT, c, sk>> >>]_vars

\* C5: a bind or a connect by a process whose record is flagged opaque
\* makes no call to the sink, returns 0, and leaves every record's
\* name_recorded and the count of name records as they were, whether or
\* not the socket has a record.
C5_OpaqueCallerSilent ==
  [][(last'.op \in SockCaptureOps /\ CallerOpaque(last'.cur))
     => /\ out' = <<>>
        /\ last'.returned /\ last'.ret = 0
        /\ \A a \in Addrs : heap'[a].name_recorded = heap[a].name_recorded
        /\ named' = named]_vars

\* an opaque process has bound a socket that has no record
C5_Witness ==
  /\ last.op = "socket_bind"
  /\ CallerOpaque(last.cur)
  /\ sk_prov[last.args.sock] = NULL
  /\ last.returned /\ last.ret = 0 /\ out = <<>>

\* C6: as stated: no two live records carry the same node identifier.
C6_UniqueNodeIds ==
  \A a \in Addrs, b \in Addrs :
    (a # b /\ heap[a].st = "live" /\ heap[b].st = "live")
    => heap[a].id # heap[b].id

\* C7: as stated: every record_edge and long_record_edge call of the last
\* hook had a live record at each node endpoint (the second endpoint of
\* long_record_edge is the long-form record, not a node).
C7_EdgeEndpointsLive ==
  \A i \in 1..Len(out) :
    /\ out[i].call \in {"record_edge", "long_record_edge"}
       => out[i].from_st = "live"
    /\ out[i].call = "record_edge" => out[i].to_st = "live"

MediationOps ==
  {"inode_permission", "file_permission", "file_open", "mmap_file",
   "file_ioctl", "msg_queue_msgsnd", "msg_queue_msgrcv", "shm_shmat",
   "socket_bind", "socket_connect", "socket_listen", "socket_accept",
   "unix_stream_connect"}

\* C8: as stated: a mediation hook that is not an allocation hook, when it
\* returns, returns 0.
C8_MediationSucceeds ==
  (last.op \in MediationOps /\ last.returned) => last.ret = 0

PermissionOps ==
  {"inode_permission", "file_permission", "file_open", "mmap_file",
   "file_ioctl"}

\* the inode the permission-style call l was made on
PermissionInode(l) ==
  IF l.op = "inode_permission" THEN l.args.inode ELSE file_inode(l.args.file)

\* C9: as stated: a permission-style hook called on a non-private inode
\* that has no record, when the allocation can succeed (memory is there,
\* the superblock and the caller have their records), goes through no bad
\* pointer, hands the sink live endpoints only, returns, and leaves the
\* inode with a live record.
C9_AllocatesBeforeUse ==
  [][LET l == last'
         i == PermissionInode(l)
         c == cred_prov[task_cred[l.cur]]
         sb == sb_prov[i_sb(i)]
     IN (/\ l.op \in PermissionOps
         /\ i \in Inodes /\ ~IS_PRIVATE(i)
         /\ inode_prov[i] = NULL
         /\ (l.op # "mmap_file" => l.args.ok)
         /\ alloc_provenance(heap, TRUE) # NULL
         /\ c \in Addrs /\ heap[c].st = "live"
         /\ sb \in Addrs /\ heap[sb].st = "live")
        => /\ ~l.fault /\ l.returned
           /\ inode_prov'[i] \in Addrs
           /\ heap'[inode_prov'[i]].st = "live"
           /\ \A k \in 1..Len(out') :
                out'[k].from_st = "live" /\ out'[k].to_st = "live"]_vars

\* the kinds of record whose identifier comes from the generator
GeneratedKinds == {MSG_TASK, MSG_MSG, MSG_SHM, MSG_SOCK}

\* C11: a credential prepare that succeeds attaches to the new credential a
\* record that was not live before, of kind task, whose identifier is the
\* generator's next value (which no live record with a generated identifier
\* carries) and emits exactly one call to the sink, the FORK edge from the
\* old credential's record to the new one, both live; one that fails
\* returns -ENOMEM, emits nothing, and leaves the records, the generator
\* and every credential's pointer as they were.  It never goes through a
\* bad pointer.
C11_PrepareForks ==
  [][(last'.op = "copy_process")
     => LET new == last'.args.new
            old == last'.args.old
            p == cred_prov'[new]
        IN /\ last'.returned /\ ~last'.fault
           /\ IF last'.ret = 0
              THEN /\ last'.args.ok
                   /\ p \in Addrs
                   /\ heap[p].st = "unalloc" /\ heap'[p].st = "live"
                   /\ heap'[p].kind = MSG_TASK
                   /\ heap'[p].id = next_node_id
                   /\ next_node_id' = next_node_id + 1
                   /\ \A a \in Addrs \ {p} :
                        (heap'[a].st = "live" /\ heap'[a].kind \in GeneratedKinds)
                        => heap'[a].id # heap'[p].id
                   /\ \A a \in Addrs \ {p} : heap'[a] = heap[a]
                   /\ \A c \in Creds \ {new} : cred_prov'[c] = cred_prov[c]
                   /\ Emitted(out') =
                        << <<"record_edge", ED_FORK, cred_prov[old], p>> >>
                   /\ out'[1].from_st = "live" /\ out'[1].to_st = "live"
              ELSE /\ last'.ret = -ENOMEM
                   /\ out' = <<>>
                   /\ heap' = heap /\ next_node_id' = next_node_id
                   /\ cred_prov' = cred_prov]_vars

\* a prepare that succeeded after another hook drew an identifier: the new
\* credential's record carries the next one and is the target of the one
\* FORK edge
C11_Witness ==
  /\ last.op = "copy_process" /\ last.ret = 0
  /\ Len(out) = 1 /\ out[1].type = ED_FORK
  /\ out[1].from = cred_prov[last.args.old]
  /\ out[1].to = cred_prov[last.args.new]
  /\ heap[cred_prov[last.args.new]].id = 3
  /\ next_node_id = 4

LabelledAllocOps ==
  {"copy_process", "inode_alloc_security", "msg_msg_alloc_security",
   "shm_alloc_security"}

\* the record that the allocation call l attached, given the pointers
\* after the call
AllocatedNode(l, cp, ip, mp, sp) ==
  CASE l.op = "copy_process" -> cp[l.args.new]
    [] l.op = "inode_alloc_security" -> ip[l.args.inode]
    [] l.op = "msg_msg_alloc_security" -> mp[l.args.msg]
    [] l.op = "shm_alloc_security" -> sp[l.args.shp]

\* whether the object of the allocation call l has an IFC context
OwnerHasIfc(l, ci) ==
  CASE l.op = "copy_process" -> ci[l.args.new] # NoIfc
    [] l.op = "inode_alloc_security" -> TRUE
    [] l.op \in {"msg_msg_alloc_security", "shm_alloc_security"} ->
         l.args.ifc # NoIfc

\* whether that context is labelled
OwnerLabelled(l, ci) ==
  CASE l.op = "copy_process" -> ifc_is_labelled(ci[l.args.new])
    [] l.op = "inode_alloc_security" -> inode_labelled(l.args.inode)
    [] l.op \in {"msg_msg_alloc_security", "shm_alloc_security"} ->
         ifc_is_labelled(l.args.ifc)

\* C16: as stated: when an allocation hook that consults IFC (credential
\* prepare, inode, message, shared-memory segment) returns 0, the record it
\* attached is live and is tracked exactly when the object has an IFC
\* context and that context is labelled; on an object with no IFC context
\* the hook goes through no bad pointer.
C16_TrackedIffLabelled ==
  [][(last'.op \in LabelledAllocOps)
     => /\ ~OwnerHasIfc(last', cred_ifc') => (~last'.fault /\ last'.returned)
        /\ (last'.returned /\ last'.ret = 0)
           => LET a == AllocatedNode(last', cred_prov', inode_prov',
                                     msg_prov', shm_prov')
              IN /\ a \in Addrs /\ heap'[a].st = "live"
                 /\ heap'[a].tracked =
                      (/\ OwnerHasIfc(last', cred_ifc')
                       /\ OwnerLabelled(last', cred_ifc'))]_vars

FreeOps ==
  {"cred_free", "inode_free_security", "msg_msg_free_security",
   "shm_free_security", "sk_free_security", "sb_free_security"}

\* the node pointer of the object that the free call l was made on, given
\* the objects' pointers
FreedObjectNode(l, cp, ip, mp, hp, kp, bp) ==
  CASE l.op = "cred_free" -> cp[l.args.cred]
    [] l.op = "inode_free_security" -> ip[l.args.inode]
    [] l.op = "msg_msg_free_security" -> mp[l.args.msg]
    [] l.op = "shm_free_security" -> hp[l.args.shp]
    [] l.op = "sk_free_security" -> kp[l.args.sock]
    [] l.op = "sb_free_security" -> bp[l.args.sb]

\* the records some object points to
AttachedNodes ==
  ({cred_prov[c] : c \in Creds} \cup {inode_prov[i] : i \in Inodes}
   \cup {sb_prov[b] : b \in Sbs} \cup {sk_prov[k] : k \in Socks}
   \cup {msg_prov[m] : m \in Msgs} \cup {shm_prov[m] : m \in Shms}) \ {NULL}

LiveNodes == {a \in Addrs : heap[a].st = "live"}

AllocOps ==
  {"cred_alloc_blank", "copy_process", "inode_alloc_security",
   "msg_msg_alloc_security", "shm_alloc_security", "sk_alloc_security",
   "sb_alloc_security"}

\* C17: as stated: a free hook called on an object that has a record
\* releases that record and clears the object's pointer; an alloc or free
\* hook that goes through no bad pointer, started where the live records
\* are exactly the records that objects point to, ends in such a state.
C17_NoNodeOutlivesObject ==
  [][/\ (last'.op \in AllocOps \cup FreeOps /\ ~last'.fault
         /\ LiveNodes = AttachedNodes)
        => LiveNodes' = AttachedNodes'
     /\ (last'.op \in FreeOps)
        => LET a == FreedObjectNode(last', cred_prov, inode_prov, msg_prov,
                                    shm_prov, sk_prov, sb_prov)
           IN (a \in Addrs /\ heap[a].st = "live")
              => /\ heap'[a].st = "freed"
                 /\ FreedObjectNode(last', cred_prov', inode_prov', msg_prov',
                                    shm_prov', sk_prov', sb_prov') = NULL]_vars

\* C18: as stated: a free hook hands the release primitive only records
\* that are live at the time of the call, never the NULL pointer and never
\* a record that was released before; a free hook called on an object that
\* has no record makes no call to the release primitive.
C18_FreeIsGuarded ==
  [][(last'.op \in FreeOps)
     => /\ \A i \in 1..Len(out') :
             out'[i].call = "free_provenance"
             => (out'[i].from # NULL /\ out'[i].from_st = "live")
        /\ (FreedObjectNode(last', cred_prov, inode_prov, msg_prov, shm_prov,
                            sk_prov, sb_prov) = NULL)
           => out' = <<>>]_vars

SocketOps ==
  {"socket_bind", "socket_connect", "socket_listen", "socket_sendmsg",
   "socket_recvmsg", "socket_accept"}

\* the calls that have the record at address a as an endpoint
CallsOn(calls, a) ==
  {i \in 1..Len(calls) : a # NULL /\ (calls[i].from = a \/ calls[i].to = a)}

\* C19: as stated: socket_post_create with the kern flag set makes no call
\* to the sink, and a bind, connect, listen, sendmsg, recvmsg or accept
\* that follows it on that socket makes no call that has the record of the
\* socket, or that of the socket's inode, as an endpoint.
C19_KernelSocketSilent ==
  [][/\ (last'.op = "socket_post_create" /\ last'.args.kern) => out' = <<>>
     /\ (/\ last.op = "socket_post_create" /\ last.args.kern
         /\ last'.op \in SocketOps /\ last'.args.sock = last.args.sock)
        => /\ CallsOn(out', sk_prov'[last.args.sock]) = {}
           /\ CallsOn(out', inode_prov'[SOCK_INODE(last.args.sock)]) = {}]_vars

\* C20: as stated: no hook records an edge whose source is the record of a
\* process that is flagged opaque.
C20_OpaqueEmitsNoEdge ==
  [][\A p \in Pids :
       (task_cred[p] # NULL /\ CallerOpaque(p))
       => \A i \in 1..Len(out') :
            out'[i].call \in {"record_edge", "long_record_edge"}
            => out'[i].from # cred_prov[task_cred[p]]]_vars

\* the edges an inode permission check with the given mask records between
\* the records c (the caller's) and n (the inode's), in order
MaskEdges(mask, c, n) ==
  (IF mask \cap {MAY_WRITE, MAY_APPEND} # {}
   THEN << <<"record_edge", ED_WRITE, c, n>> >> ELSE <<>>)
  \o (IF MAY_READ \in mask
      THEN << <<"record_edge", ED_READ, n, c>> >> ELSE <<>>)
  \o (IF MAY_EXEC \in mask
      THEN << <<"record_edge", ED_EXEC, n, c>> >> ELSE <<>>)

\* C21: as stated: an inode permission check that returns records, on a
\* non-private inode, exactly the WRITE, READ and EXEC edges its mask asks
\* for, in that order, and nothing on a private inode; it leaves every
\* context as it was and the inode's record untracked.
C21_PermissionEmitsExactly ==
  [][(last'.op = "inode_permission" /\ last'.returned)
     => LET i == last'.args.inode
            c == cred_prov[task_cred[last'.cur]]
            n == inode_prov'[i]
        IN /\ last'.ret = 0
           /\ cred_ifc' = cred_ifc
           /\ IF IS_PRIVATE(i) THEN out' = <<>>
              ELSE /\ Emitted(out') = MaskEdges(last'.args.mask, c, n)
                   /\ (n # NULL /\ inode_prov[i] = NULL)
                      => ~heap'[n].tracked]_vars

\* C21 (amended): an inode permission check that returns has returned 0 and
\* changed no context.  On a private inode it records nothing and changes
\* no record.  On a non-private inode that has a record it records exactly
\* the WRITE (caller to inode), READ (inode to caller) and EXEC (inode to
\* caller) edges its mask asks for, in that order.  On one that has none
\* and gets one, it first records CREATE (caller to inode) and the new
\* record is tracked exactly when the inode's own IFC context is labelled;
\* the edges of the mask follow, with the inode's pointer after the call
\* as their inode endpoint.
C21_PermissionEdges ==
  [][(last'.op = "inode_permission" /\ last'.returned)
     => LET i == last'.args.inode
            c == cred_prov[task_cred[last'.cur]]
            n == inode_prov'[i]
            created == inode_prov[i] = NULL /\ n # NULL
        IN /\ last'.ret = 0
           /\ cred_ifc' = cred_ifc
           /\ IF IS_PRIVATE(i)
              THEN out' = <<>> /\ heap' = heap /\ inode_prov' = inode_prov
              ELSE /\ Emitted(out') =
                        (IF created
                         THEN << <<"record_edge", ED_CREATE, c, n>> >>
                         ELSE <<>>)
                        \o MaskEdges(last'.args.mask, c, n)
                   /\ created => (/\ heap'[n].st = "live"
                                  /\ heap'[n].kind = MSG_INODE
                                  /\ heap'[n].tracked = inode_labelled(i))
                   /\ ~created => inode_prov'[i] = inode_prov[i]]_vars

\* a check for read, write and exec on an unlabelled inode that had no
\* record: CREATE, WRITE, READ and EXEC were recorded and the new record is
\* untracked
C21_Witness ==
  /\ last.op = "inode_permission" /\ last.returned /\ ~last.fault
  /\ last.args.mask = {MAY_READ, MAY_WRITE, MAY_EXEC}
  /\ ~inode_labelled(last.args.inode)
  /\ Len(out) = 4
  /\ out[1].type = ED_CREATE /\ out[2].type = ED_WRITE
  /\ out[3].type = ED_READ /\ out[4].type = ED_EXEC
  /\ ~heap[inode_prov[last.args.inode]].tracked

\* C22: a message send that returns has recorded exactly WRITE from the
\* caller's record to the message's; a message receive that returns has
\* recorded exactly READ from the message's record to the record of the
\* target task's credential, and when the target is not the caller the
\* caller's record is no endpoint of it.
C22_MessageEdges ==
  [][/\ (last'.op = "msg_queue_msgsnd" /\ last'.returned)
        => /\ last'.ret = 0
           /\ Emitted(out') =
                << <<"record_edge", ED_WRITE, cred_prov[task_cred[last'.cur]],
                     msg_prov[last'.args.msg]>> >>
     /\ (last'.op = "msg_queue_msgrcv" /\ last'.returned)
        => LET t == cred_prov[task_cred[last'.args.target]]
               c == cred_prov[task_cred[last'.cur]]
           IN /\ last'.ret = 0
              /\ Emitted(out') =
                   << <<"record_edge", ED_READ, msg_prov[last'.args.msg], t>> >>
              /\ (last'.args.target # last'.cur /\ t # c)
                 => (out'[1].from # c /\ out'[1].to # c)]_vars

\* a message with a record was received on behalf of a task other than the
\* caller: the READ edge ends at the target's record, not at the caller's
C22_Witness ==
  /\ last.op = "msg_queue_msgrcv" /\ last.returned /\ ~last.fault
  /\ last.args.target # last.cur
  /\ Len(out) = 1 /\ out[1].type = ED_READ
  /\ out[1].from = msg_prov[last.args.msg] /\ out[1].from # NULL
  /\ out[1].to = cred_prov[task_cred[last.args.target]]
  /\ out[1].to # cred_prov[task_cred[last.cur]]

\* C23: the last two calls of an ioctl that returns are WRITE from the
\* caller's record to the inode's and READ from the inode's to the
\* caller's; after the hook the caller's record and the inode's record, if
\* it has one, have a version one higher than before (a record allocated
\* by the hook started at 0), the WRITE edge saw both versions as they
\* were and the READ edge saw the inode's already raised and the caller's
\* not yet.
C23_IoctlExchange ==
  [][(last'.op = "file_ioctl" /\ last'.returned)
     => LET i == file_inode(last'.args.file)
            c == cred_prov[task_cred[last'.cur]]
            n == inode_prov'[i]
            k == Len(out')
            v == IF inode_prov[i] = NULL THEN 0 ELSE heap[inode_prov[i]].version
        IN /\ last'.ret = 0
           /\ k >= 2
           /\ Emitted(out')[k - 1] = <<"record_edge", ED_WRITE, c, n>>
           /\ Emitted(out')[k] = <<"record_edge", ED_READ, n, c>>
           /\ heap'[c].version = heap[c].version + 1
           /\ out'[k - 1].from_ver = heap[c].version
           /\ out'[k].to_ver = heap[c].version
           /\ (n # NULL)
              => /\ heap'[n].version = v + 1
                 /\ out'[k - 1].to_ver = v
                 /\ out'[k].from_ver = v + 1]_vars

\* a second ioctl on a file: both records are at version 2 and the READ
\* edge saw the inode at 2
C23_Witness ==
  /\ last.op = "file_ioctl" /\ last.returned /\ ~last.fault
  /\ LET n == inode_prov[file_inode(last.args.file)]
         c == cred_prov[task_cred[last.cur]]
     IN /\ n # NULL
        /\ heap[n].version = 2 /\ heap[c].version = 2
        /\ Len(out) = 2
        /\ out[2].type = ED_READ /\ out[2].from_ver = 2 /\ out[2].to_ver = 1

Threads == {1, 2}

\* the objects whose name is captured: a file and a socket
NamedObjects == {"f1", "s1"}

\* the record the capture works on: iprov of the file's inode, or skprov
NameNode ==
  IF last.args.obj \in Files THEN inode_prov[file_inode(last.args.obj)]
  ELSE sk_prov[last.args.obj]

\* the object has a record, allocated by its alloc hook; a record that has
\* had its name captured is a tracked one
RaceInit ==
  \E o \in NamedObjects, tr \in BOOLEAN, nr \in BOOLEAN :
    /\ nr => tr
    /\ task_cred = [p \in Pids |-> IF p = 1 THEN 1 ELSE NULL]
    /\ cred_live = {1}
    /\ cred_ifc = [c \in Creds |-> IF c = 1 THEN EmptyContext ELSE NoIfc]
    /\ ifc_tag_count = 1
    /\ heap = [InitHeap EXCEPT
                 ![3] = [set_node_id(ZeroNode(IF o \in Files THEN MSG_INODE
                                              ELSE MSG_SOCK),
                                     ASSIGN_NODE_ID, 2)
                           EXCEPT !.tracked = tr, !.name_recorded = nr]]
    /\ next_node_id = 3
    /\ cred_prov = [c \in Creds |-> IF c = 1 THEN 1 ELSE NULL]
    /\ inode_prov = [i \in Inodes |-> IF i = o THEN 3 ELSE NULL]
    /\ sb_prov = [b \in Sbs |-> IF b = "sb1" THEN 2 ELSE NULL]
    /\ sk_prov = [k \in Socks |-> IF k = o THEN 3 ELSE NULL]
    /\ msg_prov = [m \in Msgs |-> NULL]
    /\ shm_prov = [m \in Shms |-> NULL]
    /\ named = [a \in Addrs |-> 0]
    /\ out = <<>>
    /\ last = Last("record_name", 0, 0,
                   [obj |-> o, pc |-> [t \in Threads |-> "idle"]])
    /\ nops = 0

\* thread t has run one step on the hook state s and is now at position pc
RaceStep(t, pc, s) ==
  /\ heap' = s.heap
  /\ out' = out \o s.out
  /\ named' = [a \in Addrs |-> named[a] + LongWrites(s.out, a)]
  /\ last' = [last EXCEPT !.cur = t, !.args.pc[t] = pc]
  /\ UNCHANGED <<hostVars, ifcVars, next_node_id, cred_prov, inode_prov,
                 sb_prov, sk_prov, msg_prov, shm_prov>>

\* a thread enters a name-capturing hook on the object
record_name_enter(t) ==
  /\ last.args.pc[t] \in {"idle", "done"}
  /\ Tick
  /\ RaceStep(t, "check", HookState)

\* if(!provenance_is_name_recorded(prov) && provenance_is_tracked(prov))
record_name_check(t) ==
  /\ last.args.pc[t] = "check"
  /\ UNCHANGED nops
  /\ RaceStep(t, IF /\ ~flag(HookState, NameNode, "name_recorded", {})
                    /\ flag(HookState, NameNode, "tracked", {})
                 THEN "emit" ELSE "done",
              HookState)

\* long_prov_write(...); long_record_edge(ED_NAMED, prov, ...)
record_name_emit(t) ==
  /\ last.args.pc[t] = "emit"
  /\ UNCHANGED nops
  /\ RaceStep(t, "set",
              long_record_edge(
                long_prov_write(HookState,
                                IF last.args.obj \in Files THEN MSG_FILE_NAME
                                ELSE MSG_ADDR,
                                NameNode),
                ED_NAMED, NameNode, FALSE))

\* prov->...node_kern.name_recorded = NAME_RECORDED
record_name_set(t) ==
  /\ last.args.pc[t] = "set"
  /\ UNCHANGED nops
  /\ RaceStep(t, "done", setflag(HookState, NameNode, "name_recorded"))

RaceNext ==
  \/ \E t \in Threads : record_name_enter(t)
  \/ \E t \in Threads : record_name_check(t)
  \/ \E t \in Threads : record_name_emit(t)
  \/ \E t \in Threads : record_name_set(t)

SpecRace == RaceInit /\ [][RaceNext]_vars

\* C28: whatever the interleaving of the threads' steps, at most one long
\* record and at most one ED_NAMED edge are emitted for the object's node.
C28_OneNameInEveryInterleaving ==
  (last.op = "record_name")
  => /\ LongWrites(out, NameNode) <= 1
     /\ NamedEdges(out, NameNode) <= 1

\* C30: the node accept records for the listening socket, the source of
\* its ED_CREATE edge, is the node the socket's other hooks (post_create,
\* bind, connect, listen) record for it, sock->sk->sk_provenance: same
\* record, same identifier.
C30_AcceptUsesSocketNode ==
  [][(/\ last'.op = "socket_accept"
      /\ sk_prov[last'.args.sock] # NULL
      /\ Len(out') >= 1)
     => LET skprov == sk_prov[last'.args.sock]
        IN /\ out'[1].type = ED_CREATE
           /\ out'[1].from = skprov
           /\ out'[1].from_id = heap[skprov].id]_vars

====
